---- MODULE Spec2Model ----
(***************************************************************************)
(* Model of the provider registry, pkg/resource/deploy/providers/          *)
(* registry.go: the providers and aliases maps, the plugin loader, and the *)
(* registry's CRUD protocol (NewRegistry, Check, Diff, Same, Create,       *)
(* Update, Delete, RegisterAlias, GetProvider).  The plugin host, the      *)
(* workspace and the plugins are the environment: what they answer is an   *)
(* input of each action.                                                   *)
(***************************************************************************)
EXTENDS Integers, Sequences, FiniteSets, TLC

\* ------------------------------------------------------------------ bounds
\* handles the host can spawn in one run
MaxHandles == 1
\* the per-handle CloseProvider / Configure counters saturate here
MaxCloses == 2
\* ids uuid.NewV4 can hand out in one run
MaxUUIDs == 1
\* operations the engine issues on the registry NewRegistry returned
MaxSteps == 3
\* calls the step executor's threads issue when they run concurrently
MaxCalls == 2

\* ---------------------------------------------------------------- universe
ProviderURNs == {"urn:aws:a", "urn:aws:b", "urn:pulumi:p"}
NonProviderURN == "urn:bucket:x"
URNs == ProviderURNs \cup {NonProviderURN}
\* a provider of the prior state that the program no longer declares
PriorOnlyURN == "urn:pulumi:q"
PriorURNs == URNs \cup {PriorOnlyURN}

\* reference.go (IsProviderType, GetProviderPackage): the type token of a
\* provider URN is pulumi:providers:<package>
IsProviderType(urn) == urn \in ProviderURNs \cup {PriorOnlyURN}
GetProviderPackage(urn) ==
  IF urn \in {"urn:pulumi:p", PriorOnlyURN} THEN "pulumi" ELSE "aws"

\* resource.ID values: "" , the UnknownID sentinel, and real ids
EmptyID == 0
UnknownID == -1
\* the id the prior state gives its providers; uuid.NewV4 returns the others
PriorIDs == {1}
UUIDs == 2 .. (1 + MaxUUIDs)
RealIDs == PriorIDs \cup UUIDs
IDs == {EmptyID, UnknownID} \cup RealIDs

\* plugin.Provider values: nil, the built-in provider, handles of the host
NilProvider == -1
NoHandle == -2
BuiltinHandle == 0
HostHandles == 1 .. MaxHandles
Handles == {BuiltinHandle} \cup HostHandles
Pkg(h) == IF h = BuiltinHandle THEN "pulumi" ELSE "aws"

\* Reference: a (urn, id) pair.  newReference validates the URN and the id
\* shape (a real id or UnknownID); mustNewReference aborts when it fails.
\* newReference validating the URN only
newReferenceOK_AnyID(urn, id) == IsProviderType(urn)

newReferenceOK(urn, id) == IsProviderType(urn) /\ id # EmptyID
mustNewReference(urn, id) == <<urn, id>>

\* ------------------------------------------------------- property maps
\* the reserved keys of a provider's inputs: "version", "pluginDownloadURL"
NoVersion == "nil"
LatestVersion == "3.1.0"
VersionValues == {"absent", "nonstring", "not-a-semver", "v2.0"}
URLValues == {"absent", "nonstring", "https://srv"}
PropertyMaps == [version : VersionValues, pluginDownloadURL : URLValues]
GoodNews == {[version |-> "absent", pluginDownloadURL |-> "absent"],
             [version |-> "v2.0", pluginDownloadURL |-> "https://srv"]}
BadNews == {[version |-> "nonstring", pluginDownloadURL |-> "absent"],
            [version |-> "not-a-semver", pluginDownloadURL |-> "https://srv"],
            [version |-> "not-a-semver", pluginDownloadURL |-> "nonstring"],
            [version |-> "v2.0", pluginDownloadURL |-> "nonstring"]}

\* semver.ParseTolerant: accepts a v prefix and partial versions
ParseTolerant(s) ==
  IF s = "v2.0" THEN [v |-> "2.0.0", err |-> "none"]
  ELSE [v |-> NoVersion, err |-> "invalid semver"]

\* GetProviderVersion with the parse error dropped
GetProviderVersion_IgnoringParseError(inputs) ==
  IF inputs.version \in {"absent", "nonstring"} THEN [v |-> NoVersion, err |-> "none"]
  ELSE LET sv == ParseTolerant(inputs.version) IN [v |-> sv.v, err |-> "none"]

GetProviderVersion(inputs) ==
  IF inputs.version = "absent" THEN [v |-> NoVersion, err |-> "none"]
  ELSE IF inputs.version = "nonstring"
    THEN [v |-> NoVersion, err |-> "'version' must be a string"]
  ELSE LET sv == ParseTolerant(inputs.version) IN
    IF sv.err # "none"
      THEN [v |-> NoVersion, err |-> "could not parse provider version"]
      ELSE [v |-> sv.v, err |-> "none"]

GetProviderDownloadURL(inputs) ==
  IF inputs.pluginDownloadURL = "absent" THEN [url |-> "", err |-> "none"]
  ELSE IF inputs.pluginDownloadURL = "nonstring"
    THEN [url |-> "", err |-> "'pluginDownloadURL' must be a string"]
  ELSE [url |-> inputs.pluginDownloadURL, err |-> "none"]

\* ------------------------------------------------------------- errors
Err(kind, name, version, url, cause) ==
  [kind |-> kind, name |-> name, version |-> version, url |-> url, cause |-> cause]
NoErr == Err("none", "", NoVersion, "", "none")
PluginErr(what) == Err(what, "", NoVersion, "", "none")
\* an InstallProviderError that does not keep the underlying error
InstallProviderError_Unwrapped(name, version, url, cause) ==
  Err("InstallProviderError", name, version, url, "none")

InstallProviderError(name, version, url, cause) ==
  Err("InstallProviderError", name, version, url, cause)

\* ------------------------------------------------------------- loader
\* What the host and the workspace answer during one load: the first and
\* second host.Provider, GetLatestVersion, DownloadToFile and Install.
HostScript(p1, latest, dl, inst, p2) ==
  [p1 |-> p1, latest |-> latest, dl |-> dl, inst |-> inst, p2 |-> p2]
HostScripts ==
  { HostScript("ok", "ok", "ok", "ok", "ok"),
    HostScript("nil", "ok", "ok", "ok", "ok"),
    HostScript("other", "ok", "ok", "ok", "ok"),
    HostScript("missing", "err", "ok", "ok", "ok"),
    HostScript("missing", "ok", "err", "ok", "ok"),
    HostScript("missing", "ok", "ok", "err", "ok"),
    HostScript("missing", "ok", "ok", "ok", "ok"),
    HostScript("missing", "ok", "ok", "ok", "nil"),
    HostScript("missing", "ok", "ok", "ok", "missing"),
    HostScript("missing", "ok", "ok", "ok", "other") }

\* the reinstall argument of pluginSpec.Install(downloadedFile, false)
Reinstall == FALSE
HostCall(call, version) ==
  [call |-> call, version |-> version, reinstall |-> (call = "Install" /\ Reinstall)]
Loaded(provider, err, calls) == [provider |-> provider, err |-> err, calls |-> calls]

\* host.Provider(pkg, version): answer a of the host, fresh the handle it
\* would spawn
hostProvider(a, fresh) ==
  IF a = "ok" THEN [provider |-> fresh, err |-> NoErr]
  ELSE IF a = "nil" THEN [provider |-> NilProvider, err |-> NoErr]
  ELSE [provider |-> NilProvider, err |-> PluginErr(a)]

\* a loader that never looks at the built-in provider
UseBuiltin_Never(pkg, b) == FALSE

\* builtins != nil && pkg == builtins.Pkg()
UseBuiltin(pkg, b) == b # NilProvider /\ pkg = Pkg(b)

\* a loader that takes every failure of host.Provider for a missing plugin
IsMissingError_Any(err) == TRUE

\* errors.As(err, &me) with me a *workspace.MissingError
IsMissingError(err) == err.kind = "missing"

\* a second host.Provider whose failure is reported as a failed install
secondProvider_AsInstallError(hs, fresh) ==
  IF hs.p2 = "ok" THEN hostProvider(hs.p2, fresh)
  ELSE [provider |-> NilProvider,
        err |-> InstallProviderError("", NoVersion, "", hs.p2)]

\* return host.Provider(pkg, version), after the install
secondProvider(hs, fresh) == hostProvider(hs.p2, fresh)

\* a loader that never asks for the latest version
NeedLatest_Never(version) == FALSE

\* pluginSpec.Version == nil
NeedLatest(version) == version = NoVersion

loadProvider(pkg, version, downloadURL, hs, fresh, b) ==
  IF UseBuiltin(pkg, b) THEN Loaded(b, NoErr, <<>>)
  ELSE
    LET first == hostProvider(hs.p1, fresh)
        c1 == <<HostCall("Provider", version)>>
    IN
    IF first.err = NoErr THEN Loaded(first.provider, NoErr, c1)
    ELSE IF ~IsMissingError(first.err) THEN Loaded(NilProvider, first.err, c1)
    ELSE
      LET needLatest == NeedLatest(version)
          c2 == IF needLatest THEN Append(c1, HostCall("GetLatestVersion", version)) ELSE c1
          specVersion == IF needLatest THEN LatestVersion ELSE version
      IN
      IF needLatest /\ hs.latest = "err"
        THEN Loaded(NilProvider,
                    Err("could not find latest version for provider", pkg, NoVersion, "", "latest"),
                    c2)
      ELSE
        LET c3 == Append(c2, HostCall("DownloadToFile", specVersion)) IN
        IF hs.dl = "err"
          THEN Loaded(NilProvider,
                      InstallProviderError(pkg, version, downloadURL, "download"), c3)
        ELSE
          LET c4 == Append(c3, HostCall("Install", specVersion)) IN
          IF hs.inst = "err"
            THEN Loaded(NilProvider,
                        InstallProviderError(pkg, version, downloadURL, "install"), c4)
          ELSE
            LET second == secondProvider(hs, fresh) IN
            Loaded(second.provider, second.err, Append(c4, HostCall("Provider", version)))

\* ------------------------------------------------------------- state
VARIABLES
  phase,        \* "constructing": inside NewRegistry; "ready"; "failed"
  aborted,      \* "none", or how the process died: "contract", "panic"
  isPreview,    \* Registry.isPreview
  builtins,     \* Registry.builtins (NilProvider when none)
  providers,    \* Registry.providers: Reference -> plugin.Provider
  aliases,      \* Registry.aliases: URN -> URN
  nextHandle,   \* the next handle the host spawns
  nextUUID,     \* the next id uuid.NewV4 returns
  closeCount,   \* per handle: calls of host.CloseProvider so far
  configCount,  \* per handle: calls of Configure so far
  steps,        \* operations issued on the registry so far
  seeded,       \* history: the map NewRegistry returned
  checked,      \* history: per URN, the handle its last successful Check
                \* published (NilProvider: checked, nothing published;
                \* NoHandle: Check never called with it)
  registered,   \* history: the (new, old) pairs RegisterAlias has stored
  last,         \* the call in flight: its arguments, what it did and returns
  threads,      \* per thread of the step executor: the frame of its call
  m             \* Registry.m, the RWMutex: its writer and its readers

vars == <<phase, aborted, isPreview, builtins, providers, aliases,
          nextHandle, nextUUID, closeCount, configCount, steps,
          seeded, checked, registered, last, threads, m>>

\* the threads of the step executor (0 is no thread)
Threads == {1, 2}
NoThread == 0

\* the frame of a thread: the call (op, urn, id, env: what the plugin will
\* answer), where it is (pc), the Reference handed to the map function it
\* is in (ref) and where that returns to (ret), and its locals
Frame(op, pc, urn, id, env) ==
  [op |-> op, pc |-> pc, urn |-> urn, id |-> id, env |-> env,
   ref |-> <<urn, id>>, ret |-> "-", provider |-> NilProvider, ok |-> FALSE,
   alias |-> "-", path |-> "-"]
IdleFrame == Frame("-", "idle", "-", EmptyID, "-")

\* sync.RWMutex
Unlocked == [writer |-> NoThread, readers |-> {}]

EmptyProviders == [r \in {} |-> NilProvider]
EmptyAliases == [u \in {} |-> NonProviderURN]

Bump(count, h) ==
  IF h \in DOMAIN count /\ count[h] < MaxCloses THEN [count EXCEPT ![h] = @ + 1] ELSE count

\* the load made the host spawn a plugin
Spawned(ld) == ld.provider >= 1

NoNews == [version |-> "-", pluginDownloadURL |-> "-"]
NoDiff == [err |-> FALSE, changes |-> "-", replace |-> FALSE]

\* no load was made
NoScript == HostScript("-", "-", "-", "-", "-")

\* the record of a call: its arguments (urn, id, news, equal), what the
\* plugin answered (plugin, dc), how the call ended (out, path), what it
\* touched (h, closes, cfg, calls) and what it returns
Op(op, urn, id) ==
  [op |-> op, urn |-> urn, id |-> id, news |-> NoNews, equal |-> FALSE,
   plugin |-> "-", dc |-> NoDiff, out |-> "return", path |-> "-",
   h |-> NoHandle, closes |-> <<>>, cfg |-> NoHandle, calls |-> <<>>,
   failures |-> <<>>, err |-> NoErr, outputs |-> "nil", rid |-> EmptyID,
   status |-> "-", changes |-> "-", replace |-> FALSE, closeErr |-> FALSE,
   preview |-> FALSE, loaded |-> FALSE, hs |-> NoScript, lderr |-> NoErr]

\* no call is in flight: the caller has taken the result of the last one
Idle == Op("-", "-", EmptyID)

Running ==
  /\ phase = "ready" /\ aborted = "none" /\ last = Idle
  /\ steps < MaxSteps
  /\ steps' = steps + 1
  /\ UNCHANGED <<threads, m>>

\* contract.Assertf / Requiref / Failf, and Go's nil dereference
Abort(o, kind) ==
  /\ aborted' = kind
  /\ last' = [o EXCEPT !.out = kind]
  /\ UNCHANGED <<phase, isPreview, builtins, providers, aliases,
                 nextHandle, nextUUID, closeCount, configCount,
                 seeded, registered>>

\* a call that returns without touching the registry
Return(o) ==
  /\ last' = o
  /\ UNCHANGED <<phase, aborted, isPreview, builtins, providers, aliases,
                 nextHandle, nextUUID, closeCount, configCount,
                 seeded, registered>>

GetProvider(ref) ==
  IF ref \in DOMAIN providers
    THEN [provider |-> providers[ref], ok |-> TRUE]
    ELSE [provider |-> NilProvider, ok |-> FALSE]

\* setProvider writing the alias entry only
setProvider_AliasOnly(ref, provider) ==
  IF ref[1] \in DOMAIN aliases
    THEN (mustNewReference(aliases[ref[1]], ref[2]) :> provider) @@ providers
    ELSE providers

\* the map after setProvider(ref, provider): the entry and its alias entry
setProvider(ref, provider) ==
  LET one == (ref :> provider) @@ providers IN
  IF ref[1] \in DOMAIN aliases
    THEN (mustNewReference(aliases[ref[1]], ref[2]) :> provider) @@ one
    ELSE one

\* a deleteProvider that removes the id under every URN
deleteProvider_EveryURN(ref) ==
  [r \in {k \in DOMAIN providers : k[2] # ref[2]} |-> providers[r]]

\* the map after deleteProvider(ref)
deleteProvider(ref) ==
  [r \in (DOMAIN providers) \ {ref} |-> providers[r]]

Init ==
  /\ phase = "constructing"
  /\ aborted = "none"
  /\ isPreview \in BOOLEAN
  /\ builtins \in {NilProvider, BuiltinHandle}
  /\ providers = EmptyProviders
  /\ aliases = EmptyAliases
  /\ nextHandle = 1
  /\ nextUUID = 2
  /\ closeCount = [h \in Handles |-> 0]
  /\ configCount = [h \in Handles |-> 0]
  /\ steps = 0
  /\ seeded = EmptyProviders
  /\ checked = [u \in ProviderURNs |-> NoHandle]
  /\ registered = {}
  /\ last = Idle
  /\ threads = [t \in Threads |-> IdleFrame]
  /\ m = Unlocked

CheckFailure(property, reason) == [property |-> property, reason |-> reason]

\* ------------------------------------------------------------ NewRegistry
\* a check of the prior id that lets the unknown id through
HasUnknownID_EmptyOnly(id) == id = EmptyID

\* a NewRegistry that takes every answer of Configure for a success
ConfigureRejected_Never(cfg) == FALSE

\* err != nil after provider.Configure(res.Inputs)
ConfigureRejected(cfg) == cfg # "ok"

\* res.ID == "" || res.ID == UnknownID
HasUnknownID(id) == id = EmptyID \/ id = UnknownID

\* One iteration of NewRegistry's loop over the prior resources: (urn, id,
\* inputs) is the next *resource.State, hs what the host answers to its
\* load, cfg what its plugin answers to Configure.
NewRegistryLoop(urn, id, inputs, hs, cfg) ==
  /\ phase = "constructing" /\ aborted = "none" /\ last = Idle
  /\ LET o == [Op("NewRegistry", urn, id) EXCEPT !.news = inputs]
         ref == mustNewReference(urn, id)
         version == GetProviderVersion(inputs)
         downloadURL == GetProviderDownloadURL(inputs)
         ld == loadProvider(GetProviderPackage(urn), version.v, downloadURL.url,
                            hs, nextHandle, builtins)
         l == [o EXCEPT !.loaded = TRUE, !.hs = hs, !.lderr = ld.err, !.calls = ld.calls]
         Fail(what, calls) ==
           /\ phase' = "failed"
           /\ last' = [o EXCEPT !.err = PluginErr(what), !.calls = calls]
         FailLoaded(what) ==
           /\ phase' = "failed"
           /\ last' = [l EXCEPT !.err = PluginErr(what)]
     IN
     /\ IF ~IsProviderType(urn)
          THEN /\ last' = [o EXCEPT !.path = "skipped"]
               /\ UNCHANGED <<phase, providers, nextHandle, closeCount, configCount>>
        ELSE IF HasUnknownID(id)
          THEN /\ Fail("has an unknown ID", <<>>)
               /\ UNCHANGED <<providers, nextHandle, closeCount, configCount>>
        ELSE IF ref \in DOMAIN providers
          THEN /\ Fail("duplicate provider found in old state", <<>>)
               /\ UNCHANGED <<providers, nextHandle, closeCount, configCount>>
        ELSE IF version.err # "none"
          THEN /\ Fail("could not parse version", <<>>)
               /\ UNCHANGED <<providers, nextHandle, closeCount, configCount>>
        ELSE IF downloadURL.err # "none"
          THEN /\ Fail("could not parse download URL", <<>>)
               /\ UNCHANGED <<providers, nextHandle, closeCount, configCount>>
        ELSE
          /\ Spawned(ld) => nextHandle <= MaxHandles
          /\ nextHandle' = IF Spawned(ld) THEN nextHandle + 1 ELSE nextHandle
          /\ IF ld.err # NoErr
               THEN /\ FailLoaded("could not load plugin")
                    /\ UNCHANGED <<providers, closeCount, configCount>>
             ELSE IF ld.provider = NilProvider
               THEN /\ FailLoaded("could not find plugin")
                    /\ UNCHANGED <<providers, closeCount, configCount>>
             ELSE IF ConfigureRejected(cfg)
               THEN /\ phase' = "failed"
                    /\ configCount' = Bump(configCount, ld.provider)
                    /\ closeCount' = Bump(closeCount, ld.provider)
                    /\ \E closeErr \in BOOLEAN :
                         last' = [l EXCEPT !.err = PluginErr("could not configure provider"),
                                           !.h = ld.provider,
                                           !.cfg = ld.provider, !.plugin = cfg,
                                           !.closes = <<ld.provider>>,
                                           !.closeErr = closeErr]
                    /\ UNCHANGED providers
             ELSE /\ providers' = (ref :> ld.provider) @@ providers
                  /\ configCount' = Bump(configCount, ld.provider)
                  /\ last' = [l EXCEPT !.h = ld.provider,
                                       !.cfg = ld.provider, !.plugin = cfg,
                                       !.path = "loaded"]
                  /\ UNCHANGED <<phase, closeCount>>
     /\ UNCHANGED <<aborted, isPreview, builtins, aliases, nextUUID, steps,
                    seeded, checked, registered, threads, m>>

\* NewRegistry returns the registry
NewRegistryReturn ==
  /\ phase = "constructing" /\ aborted = "none" /\ last = Idle
  /\ phase' = "ready"
  /\ seeded' = providers
  /\ last' = [Op("NewRegistry", "-", EmptyID) EXCEPT !.path = "returned"]
  /\ UNCHANGED <<aborted, isPreview, builtins, providers, aliases,
                 nextHandle, nextUUID, closeCount, configCount, steps,
                 checked, registered, threads, m>>

\* ------------------------------------------------------------------ Check
\* the plugin's CheckConfig answered failures or an error (cc is "ok",
\* "failures" or "err")
CheckConfigFailed_ErrOnly(cc) == cc = "err"

CheckConfigFailed(cc) == cc = "failures" \/ cc = "err"

\* hs: what the host answers to the load; cc: what CheckConfig answers
Check(urn, news, hs, cc) ==
  /\ Running
  /\ LET o == [Op("Check", urn, UnknownID) EXCEPT !.news = news]
         version == GetProviderVersion(news)
         downloadURL == GetProviderDownloadURL(news)
         ld == loadProvider(GetProviderPackage(urn), version.v, downloadURL.url,
                            hs, nextHandle, builtins)
         called == IF checked[urn] = NoHandle
                     THEN [checked EXCEPT ![urn] = NilProvider] ELSE checked
         l == [o EXCEPT !.loaded = TRUE, !.hs = hs, !.lderr = ld.err, !.calls = ld.calls]
     IN
     IF ~IsProviderType(urn) THEN Abort(o, "contract") /\ UNCHANGED checked
     ELSE IF version.err # "none"
       THEN /\ Return([o EXCEPT !.failures = <<CheckFailure("version", version.err)>>])
            /\ checked' = called
     ELSE IF downloadURL.err # "none"
       THEN /\ Return([o EXCEPT !.failures =
                         <<CheckFailure("pluginDownloadURL", downloadURL.err)>>])
            /\ checked' = called
     ELSE
       /\ Spawned(ld) => nextHandle <= MaxHandles
       /\ nextHandle' = IF Spawned(ld) THEN nextHandle + 1 ELSE nextHandle
       /\ IF ld.err # NoErr
            THEN /\ last' = [l EXCEPT !.err = ld.err]
                 /\ checked' = called
                 /\ UNCHANGED <<providers, closeCount>>
          ELSE IF ld.provider = NilProvider
            THEN /\ last' = [l EXCEPT !.err = PluginErr("could not find plugin")]
                 /\ checked' = called
                 /\ UNCHANGED <<providers, closeCount>>
          ELSE IF CheckConfigFailed(cc)
            THEN /\ closeCount' = Bump(closeCount, ld.provider)
                 /\ last' = [l EXCEPT
                      !.h = ld.provider, !.plugin = cc,
                      !.path = "rejected", !.closes = <<ld.provider>>,
                      !.failures = IF cc = "failures"
                                     THEN <<CheckFailure("config", "plugin")>> ELSE <<>>,
                      !.err = IF cc = "err" THEN PluginErr("CheckConfig") ELSE NoErr]
                 /\ checked' = called
                 /\ UNCHANGED providers
          ELSE /\ providers' = setProvider(mustNewReference(urn, UnknownID), ld.provider)
               /\ last' = [l EXCEPT !.h = ld.provider,
                                    !.plugin = cc, !.path = "published",
                                    !.outputs = "inputs"]
               /\ checked' = [checked EXCEPT ![urn] = ld.provider]
               /\ UNCHANGED closeCount
       /\ UNCHANGED <<phase, aborted, isPreview, builtins, aliases, nextUUID,
                      configCount, seeded, registered>>

\* ---------------------------------------------------------- RegisterAlias
RegisterAlias(providerURN, alias) ==
  /\ Running
  /\ aliases' = IF providerURN # alias
                  THEN (providerURN :> alias) @@ aliases ELSE aliases
  /\ registered' = IF providerURN # alias
                     THEN registered \cup {<<providerURN, alias>>} ELSE registered
  /\ last' = [Op("RegisterAlias", providerURN, EmptyID) EXCEPT !.path = alias]
  /\ UNCHANGED <<phase, aborted, isPreview, builtins, providers,
                 nextHandle, nextUUID, closeCount, configCount, seeded, checked>>

\* ------------------------------------------------------------------- Diff
\* what DiffConfig can answer: an error, or a diff with its Changes and
\* whether it requires replacement (DiffResult.Replace())
DiffResults ==
  {d \in [err : BOOLEAN, changes : {"DiffUnknown", "DiffNone", "DiffSome"},
          replace : BOOLEAN] : d.err => d.changes = "DiffUnknown"}

\* the Changes Diff returns on the path that found (urn, UnknownID)
NormalizeChanges(changes, equal) ==
  IF changes = "DiffUnknown"
    THEN (IF equal THEN "DiffNone" ELSE "DiffSome")
    ELSE changes

\* whether Diff unloads the provider it diffed: path is "hit" when it was
\* found under (urn, UnknownID), "fallback" when under (urn, id)
DiffCloses_Never(path, dc) == FALSE

DiffCloses_OnAnyPath(path, dc) == dc.replace

DiffCloses(path, dc) == path = "hit" /\ dc.replace

\* dc: what the plugin's DiffConfig answers; equal: olds.DeepEquals(news)
\* DiffConfig's error dropped
DiffFailed_Never(dc) == FALSE

\* err != nil after provider.DiffConfig
DiffFailed(dc) == dc.err

Diff(urn, id, dc, equal) ==
  /\ Running
  /\ LET o == [Op("Diff", urn, id) EXCEPT !.equal = equal]
         new == GetProvider(mustNewReference(urn, UnknownID))
         old == GetProvider(mustNewReference(urn, id))
         path == IF new.ok THEN "hit" ELSE "fallback"
         provider == IF new.ok THEN new.provider ELSE old.provider
         d == [o EXCEPT !.path = path, !.h = provider, !.dc = dc, !.plugin = "DiffConfig"]
     IN
     /\ UNCHANGED checked
     /\ IF id = EmptyID THEN Abort(o, "contract")
        ELSE IF ~newReferenceOK(urn, UnknownID) THEN Abort(o, "contract")
        ELSE IF ~new.ok /\ ~old.ok THEN Abort([o EXCEPT !.path = path], "contract")
        ELSE IF provider = NilProvider
          THEN Abort([o EXCEPT !.path = path, !.h = NilProvider], "panic")
        ELSE IF DiffFailed(dc)
          THEN Return([d EXCEPT !.changes = "DiffUnknown", !.err = PluginErr("DiffConfig")])
        ELSE
          /\ closeCount' = IF DiffCloses(path, dc) THEN Bump(closeCount, provider)
                           ELSE closeCount
          /\ last' = [d EXCEPT
               !.changes = IF path = "hit" THEN NormalizeChanges(dc.changes, equal)
                           ELSE dc.changes,
               !.replace = dc.replace,
               !.closes = IF DiffCloses(path, dc) THEN <<provider>> ELSE <<>>]
          /\ UNCHANGED <<phase, aborted, isPreview, builtins, providers, aliases,
                         nextHandle, nextUUID, configCount, seeded, registered>>

\* ------------------------------------------------------------------- Same
\* the copy made the other way round: the new reference's entry written
\* under the old reference
CopyFromAlias_Reversed(ref, aliasRef) ==
  (aliasRef :> GetProvider(ref).provider) @@ providers

\* r.providers[ref] = r.providers[aliasRef]
CopyFromAlias(ref, aliasRef) ==
  (ref :> GetProvider(aliasRef).provider) @@ providers

Same(ref) ==
  /\ Running
  /\ providers' = IF ref[1] \in DOMAIN aliases
                    THEN CopyFromAlias(ref, mustNewReference(aliases[ref[1]], ref[2]))
                    ELSE providers
  /\ last' = [Op("Same", ref[1], ref[2]) EXCEPT
                !.path = IF ref[1] \in DOMAIN aliases THEN "aliased" ELSE "-"]
  /\ UNCHANGED <<phase, aborted, isPreview, builtins, aliases,
                 nextHandle, nextUUID, closeCount, configCount,
                 seeded, checked, registered>>

\* ----------------------------------------------------------------- Create
\* Create and Update going on without the assertion on the lookup
CheckedBefore_Unasserted(got) == TRUE

\* contract.Assertf(ok, "'Check' must be called before ..."): the lookup of
\* (urn, UnknownID) found an entry
CheckedBefore(got) == got.ok

\* Configure's error dropped
ConfigureFailed_Never(cfg) == FALSE

\* err != nil after provider.Configure(news)
ConfigureFailed(cfg) == cfg # "ok"

\* cfg: what the plugin's Configure answers; uuidOK: whether uuid.NewV4
\* succeeds
Create(urn, cfg, preview, uuidOK) ==
  /\ Running
  /\ LET o == [Op("Create", urn, EmptyID) EXCEPT !.preview = preview]
         got == GetProvider(mustNewReference(urn, UnknownID))
         id == IF preview THEN EmptyID ELSE nextUUID
         c == [o EXCEPT !.h = got.provider, !.cfg = got.provider, !.plugin = cfg]
     IN
     /\ UNCHANGED checked
     /\ IF ~newReferenceOK(urn, UnknownID) THEN Abort(o, "contract")
        ELSE IF ~CheckedBefore(got) THEN Abort(o, "contract")
        ELSE IF got.provider = NilProvider
          THEN Abort([o EXCEPT !.h = NilProvider], "panic")
        ELSE
          /\ ~preview => nextUUID \in UUIDs
          /\ configCount' = Bump(configCount, got.provider)
          /\ IF ConfigureFailed(cfg)
               THEN /\ last' = [c EXCEPT !.status = "StatusOK",
                                         !.err = PluginErr("Configure")]
                    /\ UNCHANGED <<aborted, providers, nextUUID>>
             ELSE IF ~preview /\ ~uuidOK
               THEN /\ last' = [c EXCEPT !.status = "StatusOK", !.err = PluginErr("uuid")]
                    /\ UNCHANGED <<aborted, providers, nextUUID>>
             ELSE IF ~newReferenceOK(urn, id)
               THEN /\ aborted' = "contract"
                    /\ last' = [c EXCEPT !.out = "contract"]
                    /\ UNCHANGED <<providers, nextUUID>>
             ELSE /\ providers' = setProvider(mustNewReference(urn, id), got.provider)
                  /\ nextUUID' = IF preview THEN nextUUID ELSE nextUUID + 1
                  /\ last' = [c EXCEPT !.rid = id, !.outputs = "news",
                                       !.status = "StatusOK", !.path = "published"]
                  /\ UNCHANGED aborted
          /\ UNCHANGED <<phase, isPreview, builtins, aliases, nextHandle, closeCount,
                         seeded, registered>>

\* ----------------------------------------------------------------- Update
\* Update reporting a failed Configure the way Create does
UpdateFailureStatus_OK == "StatusOK"

\* the status Update returns with Configure's error
UpdateFailureStatus == "StatusUnknown"

Update(urn, id, cfg) ==
  /\ Running
  /\ LET o == Op("Update", urn, id)
         got == GetProvider(mustNewReference(urn, UnknownID))
         c == [o EXCEPT !.h = got.provider, !.cfg = got.provider, !.plugin = cfg]
     IN
     /\ UNCHANGED checked
     /\ IF ~newReferenceOK(urn, UnknownID) THEN Abort(o, "contract")
        ELSE IF ~CheckedBefore(got) THEN Abort(o, "contract")
        ELSE IF got.provider = NilProvider
          THEN Abort([o EXCEPT !.h = NilProvider], "panic")
        ELSE
          /\ configCount' = Bump(configCount, got.provider)
          /\ IF ConfigureFailed(cfg)
               THEN /\ last' = [c EXCEPT !.status = UpdateFailureStatus,
                                         !.err = PluginErr("Configure")]
                    /\ UNCHANGED <<aborted, providers>>
             ELSE IF ~newReferenceOK(urn, id)
               THEN /\ aborted' = "contract"
                    /\ last' = [c EXCEPT !.out = "contract"]
                    /\ UNCHANGED providers
             ELSE /\ providers' = setProvider(mustNewReference(urn, id), got.provider)
                  /\ last' = [c EXCEPT !.outputs = "news", !.status = "StatusOK",
                                       !.path = "published"]
                  /\ UNCHANGED aborted
          /\ UNCHANGED <<phase, isPreview, builtins, aliases, nextHandle, nextUUID,
                         closeCount, seeded, registered>>

\* ----------------------------------------------------------------- Delete
\* the error Delete returns, were it to hand on what CloseProvider returned
IgnoreError_Propagating(closeErr) ==
  IF closeErr THEN PluginErr("CloseProvider") ELSE NoErr

\* contract.IgnoreError: the error of host.CloseProvider is dropped
IgnoreError(closeErr) == NoErr

\* Delete on a registry whose isPreview is preview; closeErr: whether
\* host.CloseProvider answers an error
DeleteWith(preview, urn, id, closeErr) ==
  /\ Running
  /\ LET o == Op("Delete", urn, id)
         ref == mustNewReference(urn, id)
         del == GetProvider(ref)
     IN
     /\ UNCHANGED checked
     /\ IF preview THEN Abort(o, "contract")
        ELSE IF ~newReferenceOK(urn, id) THEN Abort(o, "contract")
        ELSE IF ~del.ok THEN Abort(o, "contract")
        ELSE
          /\ providers' = deleteProvider(ref)
          /\ closeCount' = Bump(closeCount, del.provider)
          /\ last' = [o EXCEPT !.h = del.provider, !.closes = <<del.provider>>,
                               !.closeErr = closeErr, !.err = IgnoreError(closeErr),
                               !.status = "StatusOK", !.path = "deleted"]
          /\ UNCHANGED <<phase, aborted, isPreview, builtins, aliases,
                         nextHandle, nextUUID, configCount, seeded, registered>>

DeleteIn(preview, urn, id) ==
  \E closeErr \in BOOLEAN : DeleteWith(preview, urn, id, closeErr)

Delete_IgnoringPreview(urn, id) == DeleteIn(FALSE, urn, id)

Delete(urn, id) == DeleteIn(isPreview, urn, id)

\* ------------------------------------------- the meta-provider's methods
\* the plugin.Provider methods that make no sense on the registry itself
\* and begin with contract.Failf
FailfMethods ==
  {"GetSchema", "GetMapping", "CheckConfig", "DiffConfig", "Configure", "Invoke", "Call"}
\* those that only return an error
ErrorMethods == {"Construct", "GetPluginInfo", "Read", "StreamInvoke"}
\* those that return nil
NilMethods == {"Close", "SignalCancellation"}
MetaMethods == FailfMethods \cup ErrorMethods \cup NilMethods \cup {"Pkg"}

\* error methods answering nil
MetaError_Nil(method) == NoErr

\* the error (errors.New, fmt.Errorf) a method of the registry returns
MetaError(method) ==
  IF method = "Read" THEN PluginErr("provider resources may not be read")
  ELSE IF method = "Construct" THEN PluginErr("provider resources may not be constructed")
  ELSE IF method = "StreamInvoke"
    THEN PluginErr("the provider registry does not implement streaming invokes")
  ELSE IF method = "GetPluginInfo"
    THEN PluginErr("the provider registry does not report plugin info")
  ELSE NoErr

MetaCall(method) ==
  /\ Running
  /\ UNCHANGED checked
  /\ IF method \in FailfMethods
       THEN Abort(Op(method, "-", EmptyID), "contract")
       ELSE Return([Op(method, "-", EmptyID) EXCEPT
                      !.err = MetaError(method),
                      !.status = IF method = "Read" THEN "StatusUnknown" ELSE "-",
                      !.outputs = IF method = "Pkg" THEN "pulumi" ELSE "nil"])

\* a caller's GetProvider(ref): the lookup, and nothing else
GetProviderCall(ref) ==
  /\ Running
  /\ UNCHANGED checked
  /\ Return([Op("GetProvider", ref[1], ref[2]) EXCEPT
               !.h = GetProvider(ref).provider,
               !.path = IF GetProvider(ref).ok THEN "hit" ELSE "miss"])

\* the caller takes the result of the call; the registry is idle again
Returned ==
  /\ phase \in {"constructing", "ready"} /\ aborted = "none" /\ last # Idle
  /\ last' = Idle
  /\ UNCHANGED <<phase, aborted, isPreview, builtins, providers, aliases,
                 nextHandle, nextUUID, closeCount, configCount, steps,
                 seeded, checked, registered, threads, m>>

\* the ids the engine can name: those of the prior state and those Create
\* has returned
KnownIDs == {EmptyID, UnknownID} \cup PriorIDs \cup {i \in UUIDs : i < nextUUID}

\* the host scripts after which the loader has a handle to return
LoadingScripts ==
  {hs \in HostScripts :
     \/ hs.p1 = "ok"
     \/ hs.p1 = "missing" /\ hs.dl = "ok" /\ hs.inst = "ok" /\ hs.p2 = "ok"}
BaseScript == HostScript("ok", "ok", "ok", "ok", "ok")
\* the host scripts Check is driven with: a plugin that is there, one that
\* fails to start, one that is missing and cannot be downloaded, one that
\* is missing and gets installed
CheckScripts ==
  { BaseScript,
    HostScript("other", "ok", "ok", "ok", "ok"),
    HostScript("missing", "ok", "err", "ok", "ok"),
    HostScript("missing", "ok", "ok", "ok", "ok") }
SomeNews == [version |-> "v2.0", pluginDownloadURL |-> "https://srv"]

\* the guards every call of a group shares, ahead of its inputs
Constructing == phase = "constructing" /\ aborted = "none" /\ last = Idle
Ready == phase = "ready" /\ aborted = "none" /\ last = Idle /\ steps < MaxSteps

Next ==
  \/ Constructing /\ \E urn \in URNs, id \in {EmptyID, UnknownID} \cup PriorIDs,
                        inputs \in BadNews :
       NewRegistryLoop(urn, id, inputs, BaseScript, "ok")
  \/ Constructing /\ \E urn \in PriorURNs, id \in {EmptyID, UnknownID} \cup PriorIDs,
                        inputs \in GoodNews, hs \in HostScripts, cfg \in {"ok", "err"} :
       NewRegistryLoop(urn, id, inputs, hs, cfg)
  \/ NewRegistryReturn
  \/ Returned
  \/ Ready /\ Check(NonProviderURN, SomeNews, BaseScript, "ok")
  \/ Ready /\ \E urn \in ProviderURNs, news \in BadNews : Check(urn, news, BaseScript, "ok")
  \/ Ready /\ \E urn \in ProviderURNs, news \in GoodNews,
                 hs \in HostScripts \ LoadingScripts :
       Check(urn, news, hs, "ok")
  \/ Ready /\ \E urn \in ProviderURNs, news \in GoodNews,
                 hs \in HostScripts \cap LoadingScripts,
                 cc \in {"ok", "failures", "err"} :
       Check(urn, news, hs, cc)
  \/ Ready /\ \E n \in ProviderURNs, o \in ProviderURNs : RegisterAlias(n, o)
  \/ Ready /\ \E urn \in ProviderURNs, id \in KnownIDs, dc \in DiffResults :
       Diff(urn, id, dc, FALSE)
  \/ Ready /\ \E urn \in ProviderURNs, id \in KnownIDs,
                 dc \in {d \in DiffResults : ~d.err /\ d.changes = "DiffUnknown"} :
       Diff(urn, id, dc, TRUE)
  \/ Ready /\ \E urn \in ProviderURNs, id \in KnownIDs \ {EmptyID} :
       Same(mustNewReference(urn, id))
  \/ Ready /\ \E urn \in ProviderURNs, id \in KnownIDs \ {EmptyID} :
       GetProviderCall(mustNewReference(urn, id))
  \/ Ready /\ \E urn \in ProviderURNs, cfg \in {"ok", "err"}, preview \in BOOLEAN :
       Create(urn, cfg, preview, TRUE)
  \/ Ready /\ \E urn \in ProviderURNs : Create(urn, "ok", FALSE, FALSE)
  \/ Ready /\ \E urn \in ProviderURNs, id \in KnownIDs, cfg \in {"ok", "err"} :
       Update(urn, id, cfg)
  \/ Ready /\ \E urn \in ProviderURNs, id \in KnownIDs \ {EmptyID} : Delete(urn, id)
  \/ Ready /\ \E method \in MetaMethods : MetaCall(method)

Spec == Init /\ [][Next]_vars

\* ============================================== the registry under threads
\* The same operations, called by the threads of the step executor and cut
\* at every lock operation, map access and plugin or host call, so that the
\* calls interleave.  providers, aliases and the counters are the registry's;
\* threads and m are the threads' frames and the lock.
ConcURNs == {"urn:aws:a", "urn:aws:b"}
ConcIDs == {UnknownID} \cup PriorIDs

\* what the sequential variables do during a threaded run: nothing
SeqUnchanged == UNCHANGED <<phase, isPreview, builtins, seeded, checked, registered, last>>

At(t, label) == aborted = "none" /\ threads[t].pc = label
Goto(t, f) == threads' = [threads EXCEPT ![t] = f]

\* a thread calls into the registry
Calling(t) ==
  /\ At(t, "idle")
  /\ steps < MaxCalls
  /\ steps' = steps + 1
  /\ SeqUnchanged
  /\ UNCHANGED <<providers, aliases, nextHandle, nextUUID, closeCount, configCount, m>>

\* a step of a call that touches only the thread's frame
Local(t, f) ==
  /\ Goto(t, f)
  /\ SeqUnchanged
  /\ UNCHANGED <<aborted, providers, aliases, nextHandle, nextUUID, closeCount,
                 configCount, steps, m>>

\* contract.Assertf failing, or a nil dereference, in thread t
ConcAbort(t, kind) ==
  /\ aborted' = kind
  /\ Goto(t, [threads[t] EXCEPT !.pc = kind])
  /\ SeqUnchanged
  /\ UNCHANGED <<providers, aliases, nextHandle, nextUUID, closeCount, configCount,
                 steps, m>>

\* the frame of a thread entering GetProvider(ref), to go on at ret
EnterGetProvider(f, ref, ret) == [f EXCEPT !.pc = "GetProvider.RLock", !.ref = ref, !.ret = ret]
\* the frame of a thread entering setProvider(ref, f.provider)
EnterSetProvider(f, ref) == [f EXCEPT !.pc = "setProvider.Lock", !.ref = ref, !.ret = "idle"]

CallGetProvider(t, urn, id) ==
  /\ Calling(t) /\ aborted' = aborted
  /\ Goto(t, EnterGetProvider(Frame("GetProvider", "-", urn, id, "-"),
                              mustNewReference(urn, id), "idle"))

CallSame(t, urn, id) ==
  /\ Calling(t) /\ aborted' = aborted
  /\ Goto(t, Frame("Same", "Same.RLock", urn, id, "-"))

CallRegisterAlias(t, providerURN, alias) ==
  /\ Calling(t) /\ aborted' = aborted
  /\ Goto(t, IF providerURN # alias
               THEN [Frame("RegisterAlias", "RegisterAlias.write", providerURN, EmptyID, "-")
                       EXCEPT !.alias = alias]
               ELSE IdleFrame)

\* env: what CheckConfig will answer
CallCheck(t, urn, env) ==
  /\ Calling(t)
  /\ IF ~IsProviderType(urn)
       THEN aborted' = "contract" /\ Goto(t, Frame("Check", "contract", urn, UnknownID, env))
       ELSE aborted' = aborted /\ Goto(t, Frame("Check", "Check.load", urn, UnknownID, env))

\* env: whether DiffConfig's diff will require replacement
CallDiff(t, urn, id, env) ==
  /\ Calling(t)
  /\ IF id = EmptyID
       THEN aborted' = "contract" /\ Goto(t, Frame("Diff", "contract", urn, id, env))
       ELSE /\ aborted' = aborted
            /\ Goto(t, EnterGetProvider(Frame("Diff", "-", urn, id, env),
                                        mustNewReference(urn, UnknownID), "Diff.new"))

\* env: what Configure will answer
CallCreate(t, urn, env, preview) ==
  /\ Calling(t) /\ aborted' = aborted
  /\ Goto(t, EnterGetProvider([Frame("Create", "-", urn, EmptyID, env) EXCEPT
                                 !.path = IF preview THEN "preview" ELSE "update"],
                              mustNewReference(urn, UnknownID), "Create.got"))

CallUpdate(t, urn, id, env) ==
  /\ Calling(t) /\ aborted' = aborted
  /\ Goto(t, EnterGetProvider(Frame("Update", "-", urn, id, env),
                              mustNewReference(urn, UnknownID), "Update.got"))

CallDelete(t, urn, id) ==
  /\ Calling(t)
  /\ IF isPreview \/ ~newReferenceOK(urn, id)
       THEN aborted' = "contract" /\ Goto(t, Frame("Delete", "contract", urn, id, "-"))
       ELSE /\ aborted' = aborted
            /\ Goto(t, [Frame("Delete", "deleteProvider.Lock", urn, id, "-")
                          EXCEPT !.ret = "Delete.deleted"])

\* ---------------------------------------------------------- the lock
\* a deferred Unlock that never runs
Unlock_Forgotten(t) == m

\* a mutex whose Lock does not wait for the readers
CanLock_DespiteReaders(mm) == mm.writer = NoThread

\* m.Lock() goes through: no writer and no reader holds the mutex
CanLock(mm) == mm.writer = NoThread /\ mm.readers = {}

\* a read lock that is never given back
RUnlock_Forgotten(t) == m

\* m.Unlock() and m.RUnlock() by thread t
Unlock(t) == [m EXCEPT !.writer = NoThread]
RUnlock(t) == [m EXCEPT !.readers = @ \ {t}]

\* what a step of a running call leaves alone besides the registry
ConcRest == SeqUnchanged /\ UNCHANGED <<aborted, steps>>

\* ----------------------------------------------------------- GetProvider
GetProviderRLock(t) ==
  /\ At(t, "GetProvider.RLock")
  /\ m.writer = NoThread
  /\ m' = [m EXCEPT !.readers = @ \cup {t}]
  /\ Goto(t, [threads[t] EXCEPT !.pc = "GetProvider.read"])
  /\ ConcRest
  /\ UNCHANGED <<providers, aliases, nextHandle, nextUUID, closeCount, configCount>>

GetProviderRead(t) ==
  /\ At(t, "GetProvider.read")
  /\ LET got == GetProvider(threads[t].ref) IN
     Local(t, [threads[t] EXCEPT !.pc = "GetProvider.RUnlock",
                                 !.provider = got.provider, !.ok = got.ok])

GetProviderRUnlock(t) ==
  /\ At(t, "GetProvider.RUnlock")
  /\ m' = RUnlock(t)
  /\ Goto(t, IF threads[t].ret = "idle" THEN IdleFrame
             ELSE [threads[t] EXCEPT !.pc = threads[t].ret])
  /\ ConcRest
  /\ UNCHANGED <<providers, aliases, nextHandle, nextUUID, closeCount, configCount>>

\* ----------------------------------------------------------- setProvider
setProviderLock(t) ==
  /\ At(t, "setProvider.Lock")
  /\ CanLock(m)
  /\ m' = [m EXCEPT !.writer = t]
  /\ Goto(t, [threads[t] EXCEPT !.pc = "setProvider.write"])
  /\ ConcRest
  /\ UNCHANGED <<providers, aliases, nextHandle, nextUUID, closeCount, configCount>>

setProviderWrite(t) ==
  /\ At(t, "setProvider.write")
  /\ providers' = (threads[t].ref :> threads[t].provider) @@ providers
  /\ Goto(t, [threads[t] EXCEPT !.pc = "setProvider.readAlias"])
  /\ ConcRest
  /\ UNCHANGED <<aliases, nextHandle, nextUUID, closeCount, configCount, m>>

setProviderReadAlias(t) ==
  /\ At(t, "setProvider.readAlias")
  /\ LET urn == threads[t].ref[1] IN
     Local(t, IF urn \in DOMAIN aliases
                THEN [threads[t] EXCEPT !.pc = "setProvider.writeAlias",
                                        !.alias = aliases[urn]]
                ELSE [threads[t] EXCEPT !.pc = "setProvider.Unlock"])

setProviderWriteAlias(t) ==
  /\ At(t, "setProvider.writeAlias")
  /\ providers' = (mustNewReference(threads[t].alias, threads[t].ref[2])
                     :> threads[t].provider) @@ providers
  /\ Goto(t, [threads[t] EXCEPT !.pc = "setProvider.Unlock"])
  /\ ConcRest
  /\ UNCHANGED <<aliases, nextHandle, nextUUID, closeCount, configCount, m>>

setProviderUnlock(t) ==
  /\ At(t, "setProvider.Unlock")
  /\ m' = Unlock(t)
  /\ Goto(t, IdleFrame)
  /\ ConcRest
  /\ UNCHANGED <<providers, aliases, nextHandle, nextUUID, closeCount, configCount>>

\* -------------------------------------------------------- deleteProvider
deleteProviderLock(t) ==
  /\ At(t, "deleteProvider.Lock")
  /\ CanLock(m)
  /\ m' = [m EXCEPT !.writer = t]
  /\ Goto(t, [threads[t] EXCEPT !.pc = "deleteProvider.read"])
  /\ ConcRest
  /\ UNCHANGED <<providers, aliases, nextHandle, nextUUID, closeCount, configCount>>

deleteProviderRead(t) ==
  /\ At(t, "deleteProvider.read")
  /\ LET got == GetProvider(threads[t].ref) IN
     Local(t, [threads[t] EXCEPT
                 !.pc = IF got.ok THEN "deleteProvider.delete" ELSE "deleteProvider.Unlock",
                 !.provider = got.provider, !.ok = got.ok])

deleteProviderDelete(t) ==
  /\ At(t, "deleteProvider.delete")
  /\ providers' = deleteProvider(threads[t].ref)
  /\ Goto(t, [threads[t] EXCEPT !.pc = "deleteProvider.Unlock"])
  /\ ConcRest
  /\ UNCHANGED <<aliases, nextHandle, nextUUID, closeCount, configCount, m>>

deleteProviderUnlock(t) ==
  /\ At(t, "deleteProvider.Unlock")
  /\ m' = Unlock(t)
  /\ Goto(t, [threads[t] EXCEPT !.pc = threads[t].ret])
  /\ ConcRest
  /\ UNCHANGED <<providers, aliases, nextHandle, nextUUID, closeCount, configCount>>

\* ------------------------------------------------------------------ Same
SameRLock(t) ==
  /\ At(t, "Same.RLock")
  /\ m.writer = NoThread
  /\ m' = [m EXCEPT !.readers = @ \cup {t}]
  /\ Goto(t, [threads[t] EXCEPT !.pc = "Same.readAlias"])
  /\ ConcRest
  /\ UNCHANGED <<providers, aliases, nextHandle, nextUUID, closeCount, configCount>>

SameReadAlias(t) ==
  /\ At(t, "Same.readAlias")
  /\ LET urn == threads[t].ref[1] IN
     Local(t, IF urn \in DOMAIN aliases
                THEN [threads[t] EXCEPT !.pc = "Same.copy", !.alias = aliases[urn]]
                ELSE [threads[t] EXCEPT !.pc = "Same.RUnlock"])

\* r.providers[ref] = r.providers[aliasRef]
SameCopy(t) ==
  /\ At(t, "Same.copy")
  /\ LET aliasRef == mustNewReference(threads[t].alias, threads[t].ref[2]) IN
     providers' = (threads[t].ref :> GetProvider(aliasRef).provider) @@ providers
  /\ Goto(t, [threads[t] EXCEPT !.pc = "Same.RUnlock"])
  /\ ConcRest
  /\ UNCHANGED <<aliases, nextHandle, nextUUID, closeCount, configCount, m>>

SameRUnlock(t) ==
  /\ At(t, "Same.RUnlock")
  /\ m' = RUnlock(t)
  /\ Goto(t, IdleFrame)
  /\ ConcRest
  /\ UNCHANGED <<providers, aliases, nextHandle, nextUUID, closeCount, configCount>>

\* --------------------------------------------------------- RegisterAlias
RegisterAliasWrite(t) ==
  /\ At(t, "RegisterAlias.write")
  /\ aliases' = (threads[t].urn :> threads[t].alias) @@ aliases
  /\ Goto(t, IdleFrame)
  /\ ConcRest
  /\ UNCHANGED <<providers, nextHandle, nextUUID, closeCount, configCount, m>>

\* ------------------------------------------- the plugin and host calls
\* loadProvider in Check: host.Provider, and the workspace's download and
\* install when the plugin is missing (hs)
CheckLoad(t, hs) ==
  /\ At(t, "Check.load")
  /\ LET ld == loadProvider(GetProviderPackage(threads[t].urn), NoVersion, "", hs,
                            nextHandle, builtins)
     IN
     /\ Spawned(ld) => nextHandle <= MaxHandles
     /\ nextHandle' = IF Spawned(ld) THEN nextHandle + 1 ELSE nextHandle
     /\ Goto(t, IF ld.err # NoErr \/ ld.provider = NilProvider THEN IdleFrame
                ELSE [threads[t] EXCEPT !.pc = "Check.CheckConfig",
                                        !.provider = ld.provider])
  /\ ConcRest
  /\ UNCHANGED <<providers, aliases, nextUUID, closeCount, configCount, m>>

\* provider.CheckConfig, then the close or the entry into setProvider
CheckCheckConfig(t) ==
  /\ At(t, "Check.CheckConfig")
  /\ Local(t, IF CheckConfigFailed(threads[t].env)
                THEN [threads[t] EXCEPT !.pc = "Check.Close"]
                ELSE EnterSetProvider(threads[t],
                                      mustNewReference(threads[t].urn, UnknownID)))

\* host.CloseProvider(provider) in Check, Diff and Delete
CloseProvider(t) ==
  /\ At(t, "Check.Close") \/ At(t, "Diff.Close") \/ At(t, "Delete.Close")
  /\ closeCount' = Bump(closeCount, threads[t].provider)
  /\ Goto(t, IdleFrame)
  /\ ConcRest
  /\ UNCHANGED <<providers, aliases, nextHandle, nextUUID, configCount, m>>

\* Diff after its lookup of (urn, UnknownID)
DiffNew(t) ==
  /\ At(t, "Diff.new")
  /\ Local(t, IF threads[t].ok
                THEN [threads[t] EXCEPT !.pc = "Diff.DiffConfig", !.path = "hit"]
                ELSE EnterGetProvider(threads[t],
                                      mustNewReference(threads[t].urn, threads[t].id),
                                      "Diff.old"))

\* Diff after its lookup of (urn, id)
DiffOld(t) ==
  /\ At(t, "Diff.old")
  /\ IF ~threads[t].ok THEN ConcAbort(t, "contract")
     ELSE Local(t, [threads[t] EXCEPT !.pc = "Diff.DiffConfig", !.path = "fallback"])

\* provider.DiffConfig
DiffDiffConfig(t) ==
  /\ At(t, "Diff.DiffConfig")
  /\ LET dc == [err |-> FALSE, changes |-> "DiffSome",
                replace |-> threads[t].env = "replace"]
     IN
     IF threads[t].provider = NilProvider THEN ConcAbort(t, "panic")
     ELSE Local(t, IF DiffCloses(threads[t].path, dc)
                     THEN [threads[t] EXCEPT !.pc = "Diff.Close"]
                     ELSE IdleFrame)

\* Create and Update after their lookup of (urn, UnknownID)
ConfigureGot(t) ==
  /\ At(t, "Create.got") \/ At(t, "Update.got")
  /\ IF ~CheckedBefore([provider |-> threads[t].provider, ok |-> threads[t].ok])
       THEN ConcAbort(t, "contract")
       ELSE Local(t, [threads[t] EXCEPT !.pc = "Configure"])

\* provider.Configure(news) in Create and Update, then the id and the entry
\* into setProvider
Configure(t) ==
  /\ At(t, "Configure")
  /\ LET f == threads[t]
         id == IF f.op = "Update" THEN f.id
               ELSE IF f.path = "preview" THEN EmptyID ELSE nextUUID
         generated == f.op = "Create" /\ f.path # "preview"
     IN
     IF f.provider = NilProvider THEN ConcAbort(t, "panic")
     ELSE
       /\ generated => nextUUID \in UUIDs
       /\ configCount' = Bump(configCount, f.provider)
       /\ SeqUnchanged
       /\ UNCHANGED <<providers, aliases, nextHandle, closeCount, steps, m>>
       /\ IF ConfigureFailed(f.env)
            THEN Goto(t, IdleFrame) /\ UNCHANGED <<aborted, nextUUID>>
          ELSE IF ~newReferenceOK(f.urn, id)
            THEN /\ aborted' = "contract"
                 /\ Goto(t, [f EXCEPT !.pc = "contract"])
                 /\ UNCHANGED nextUUID
          ELSE /\ Goto(t, EnterSetProvider([f EXCEPT !.id = id],
                                           mustNewReference(f.urn, id)))
               /\ nextUUID' = IF generated THEN nextUUID + 1 ELSE nextUUID
               /\ UNCHANGED aborted

\* Delete after deleteProvider
DeleteDeleted(t) ==
  /\ At(t, "Delete.deleted")
  /\ IF ~threads[t].ok THEN ConcAbort(t, "contract")
     ELSE Local(t, [threads[t] EXCEPT !.pc = "Delete.Close"])

\* ------------------------------------------------- the threaded registry
\* a registry NewRegistry returned, with or without a provider of the prior
\* state, with or without an alias registered, and no call running
ConcInit ==
  /\ phase = "ready"
  /\ aborted = "none"
  /\ isPreview \in BOOLEAN
  /\ builtins = NilProvider
  /\ \E seed \in BOOLEAN :
       /\ providers = IF seed THEN (mustNewReference("urn:aws:b", 1) :> 1)
                      ELSE EmptyProviders
       /\ nextHandle = IF seed THEN 2 ELSE 1
       /\ configCount = [h \in Handles |-> IF seed /\ h = 1 THEN 1 ELSE 0]
  /\ \E aliased \in BOOLEAN :
       /\ aliases = IF aliased THEN ("urn:aws:a" :> "urn:aws:b") ELSE EmptyAliases
       /\ registered = IF aliased THEN {<<"urn:aws:a", "urn:aws:b">>} ELSE {}
  /\ nextUUID = 2
  /\ closeCount = [h \in Handles |-> 0]
  /\ steps = 0
  /\ seeded = providers
  /\ checked = [u \in ProviderURNs |-> NoHandle]
  /\ last = Idle
  /\ threads = [t \in Threads |-> IdleFrame]
  /\ m = Unlocked

\* what the host answers a concurrent Check's load: a handle at once, a
\* handle after an install, or an error
ConcScripts ==
  {BaseScript, HostScript("missing", "ok", "ok", "ok", "ok"),
   HostScript("other", "ok", "ok", "ok", "ok")}

ConcNext ==
  \E t \in Threads :
    \/ \E urn \in ConcURNs, id \in ConcIDs : CallGetProvider(t, urn, id)
    \/ \E urn \in ConcURNs, id \in ConcIDs : CallSame(t, urn, id)
    \/ \E n \in ConcURNs, o \in ConcURNs : CallRegisterAlias(t, n, o)
    \/ \E urn \in ConcURNs, env \in {"ok", "failures"} : CallCheck(t, urn, env)
    \/ \E urn \in ConcURNs, id \in ConcIDs, env \in {"replace", "keep"} :
         CallDiff(t, urn, id, env)
    \/ \E urn \in ConcURNs, env \in {"ok", "err"}, preview \in BOOLEAN :
         CallCreate(t, urn, env, preview)
    \/ \E urn \in ConcURNs, id \in ConcIDs, env \in {"ok", "err"} :
         CallUpdate(t, urn, id, env)
    \/ \E urn \in ConcURNs, id \in ConcIDs : CallDelete(t, urn, id)
    \/ GetProviderRLock(t) \/ GetProviderRead(t) \/ GetProviderRUnlock(t)
    \/ setProviderLock(t) \/ setProviderWrite(t) \/ setProviderReadAlias(t)
    \/ setProviderWriteAlias(t) \/ setProviderUnlock(t)
    \/ deleteProviderLock(t) \/ deleteProviderRead(t) \/ deleteProviderDelete(t)
    \/ deleteProviderUnlock(t)
    \/ SameRLock(t) \/ SameReadAlias(t) \/ SameCopy(t) \/ SameRUnlock(t)
    \/ RegisterAliasWrite(t)
    \/ \E hs \in ConcScripts : CheckLoad(t, hs)
    \/ CheckCheckConfig(t) \/ CloseProvider(t)
    \/ DiffNew(t) \/ DiffOld(t) \/ DiffDiffConfig(t)
    \/ ConfigureGot(t) \/ Configure(t) \/ DeleteDeleted(t)

ConcSpec == ConcInit /\ [][ConcNext]_vars

\* a step of the call thread t is running
Run(t) ==
  \/ GetProviderRLock(t) \/ GetProviderRead(t) \/ GetProviderRUnlock(t)
  \/ setProviderLock(t) \/ setProviderWrite(t) \/ setProviderReadAlias(t)
  \/ setProviderWriteAlias(t) \/ setProviderUnlock(t)
  \/ deleteProviderLock(t) \/ deleteProviderRead(t) \/ deleteProviderDelete(t)
  \/ deleteProviderUnlock(t)
  \/ SameRLock(t) \/ SameReadAlias(t) \/ SameCopy(t) \/ SameRUnlock(t)
  \/ RegisterAliasWrite(t)
  \/ \E hs \in ConcScripts : CheckLoad(t, hs)
  \/ CheckCheckConfig(t) \/ CloseProvider(t)
  \/ DiffNew(t) \/ DiffOld(t) \/ DiffDiffConfig(t)
  \/ ConfigureGot(t) \/ Configure(t) \/ DeleteDeleted(t)

\* the goroutine of a call keeps being scheduled, and the host, workspace
\* and plugin calls it makes return
FairConcSpec == ConcSpec /\ \A t \in Threads : WF_vars(Run(t))

\* ================================================================ claims
Lookup(urn, id) == GetProvider(mustNewReference(urn, id))
Found(h) == [provider |-> h, ok |-> TRUE]

\* C1 (as claimed): in every run that trips no contract assertion,
\* host.CloseProvider is called at most once on each handle the loader
\* returned.
SingleClose ==
  aborted = "none" => \A h \in Handles : closeCount[h] <= 1

\* C2 (as claimed): no key of the providers map refers to a handle on which
\* host.CloseProvider has been called.
NoUseAfterClose ==
  \A ref \in DOMAIN providers :
    providers[ref] \in Handles => closeCount[providers[ref]] = 0

CreateSucceeded ==
  /\ last.op = "Create" /\ last.out = "return"
  /\ last.err = NoErr /\ last.rid # EmptyID

\* C3 (as claimed): after a Create(urn) that returns no error and a
\* non-empty id, (urn, UnknownID) and (urn, id) both resolve, to the same
\* handle, and that handle is the one the last successful Check(urn)
\* published.
DualRegistrationOfCheck ==
  CreateSucceeded =>
    /\ Lookup(last.urn, UnknownID) = Lookup(last.urn, last.rid)
    /\ Lookup(last.urn, last.rid) = Found(checked[last.urn])

\* C3 (amended): after a Create(urn) that returns no error and a non-empty
\* id, (urn, UnknownID) and (urn, id) both resolve, to the same handle: the
\* one that was registered under (urn, UnknownID) when Create was called.
DualRegistration ==
  CreateSucceeded =>
    /\ Lookup(last.urn, UnknownID) = Lookup(last.urn, last.rid)
    /\ Lookup(last.urn, last.rid) = Found(last.h)
    /\ last.h \in Handles

DualRegistrationWitness ==
  CreateSucceeded /\ Lookup(last.urn, last.rid) = Found(checked[last.urn])

\* a call whose setProvider((urn, PublishedID), h) has run
Published ==
  /\ last.op \in {"Check", "Create", "Update"}
  /\ last.out = "return" /\ last.path = "published"
PublishedID ==
  IF last.op = "Check" THEN UnknownID
  ELSE IF last.op = "Create" THEN last.rid ELSE last.id

\* C4 (as claimed): if RegisterAlias(N, O) with N # O was called before
\* setProvider((N, i), h) runs, then after that setProvider (O, i) resolves
\* to h.
AliasShadow ==
  Published =>
    \A o \in ProviderURNs :
      <<last.urn, o>> \in registered => Lookup(o, PublishedID) = Found(last.h)

\* C5: a Check that reached CheckConfig publishes if and only if the plugin
\* accepted: accepted, the loaded handle is stored under (urn, UnknownID)
\* and the plugin's inputs are returned without failures; rejected (failures
\* or an error), the loaded handle is closed exactly once, the failures or
\* the error are returned and the providers map is as before the call.
CheckPublishesIffAccepted ==
  [][ (last'.op = "Check" /\ last'.plugin # "-") =>
        IF last'.plugin = "ok"
          THEN /\ last'.out = "return"
               /\ mustNewReference(last'.urn, UnknownID) \in DOMAIN providers'
               /\ providers'[mustNewReference(last'.urn, UnknownID)] = last'.h
               /\ last'.outputs = "inputs"
               /\ last'.failures = <<>> /\ last'.err = NoErr
               /\ last'.closes = <<>> /\ closeCount' = closeCount
          ELSE /\ last'.out = "return"
               /\ last'.closes = <<last'.h>>
               /\ closeCount' = Bump(closeCount, last'.h)
               /\ providers' = providers
               /\ last'.outputs = "nil"
               /\ (last'.failures # <<>> \/ last'.err # NoErr)
    ]_vars

CheckPublishesIffAcceptedWitness ==
  /\ last.op = "Check" /\ last.plugin = "failures"
  /\ last.closes = <<last.h>> /\ closeCount[last.h] = 1
  /\ Lookup(last.urn, UnknownID).ok

BadVersion(news) ==
  \/ news.version = "nonstring"
  \/ news.version # "absent" /\ ParseTolerant(news.version).err # "none"

\* what Check returns and does on a validation failure of property
RefusedOn(property) ==
  /\ last'.out = "return"
  /\ Len(last'.failures) = 1 /\ last'.failures[1].property = property
  /\ last'.outputs = "nil" /\ last'.err = NoErr
  /\ last'.calls = <<>> /\ last'.h = NoHandle
  /\ nextHandle' = nextHandle
  /\ providers' = providers

\* C6: for news whose "version" is not a string or does not parse as
\* tolerant semver, Check returns nil inputs, exactly one CheckFailure on
\* "version" and no error, calls neither the host nor the workspace and
\* leaves the providers map unchanged; a non-string "pluginDownloadURL"
\* (with a good version) likewise yields one CheckFailure on
\* "pluginDownloadURL" and no load.
CheckOnBadVersion ==
  [][ (last'.op = "Check" /\ IsProviderType(last'.urn)) =>
        /\ BadVersion(last'.news) => RefusedOn("version")
        /\ (~BadVersion(last'.news) /\ last'.news.pluginDownloadURL = "nonstring")
             => RefusedOn("pluginDownloadURL")
    ]_vars

CheckOnBadVersionWitness ==
  /\ last.op = "Check" /\ last.news.version = "not-a-semver"
  /\ Len(last.failures) = 1 /\ last.failures[1].property = "version"
  /\ nextHandle <= MaxHandles

DiffReplacedOnHit ==
  /\ last.op = "Diff" /\ last.out = "return"
  /\ Lookup(last.urn, UnknownID).ok
  /\ ~last.dc.err /\ last.dc.replace

\* C7: when Diff finds a handle under (urn, UnknownID) and its DiffConfig
\* returns a diff that requires replacement, host.CloseProvider has been
\* called on that handle when Diff returns.
ReplaceClosesHandle ==
  DiffReplacedOnHit =>
    /\ last.closes = <<Lookup(last.urn, UnknownID).provider>>
    /\ closeCount[Lookup(last.urn, UnknownID).provider] >= 1

ReplaceClosesHandleWitness ==
  DiffReplacedOnHit /\ closeCount[last.h] = 1 /\ last.replace

\* C8 (as claimed): a Diff whose DiffConfig succeeds with DiffUnknown
\* returns DiffNone when olds deeply equals news and DiffSome otherwise, on
\* either path.
DiffUnknownNormalized ==
  ( /\ last.op = "Diff" /\ last.out = "return" /\ last.plugin = "DiffConfig"
    /\ ~last.dc.err /\ last.dc.changes = "DiffUnknown" )
  => last.changes = (IF last.equal THEN "DiffNone" ELSE "DiffSome")

\* the provider NewRegistry seeded at ref is still registered there
StillSeeded(ref) ==
  /\ ref \in DOMAIN seeded /\ ref \in DOMAIN providers
  /\ providers[ref] = seeded[ref]

\* what Diff does when it reads the old provider at ref: DiffConfig on that
\* handle, no close, no change of the map
ReadsOldProvider(ref) ==
  /\ last'.out = "return" /\ last'.plugin = "DiffConfig"
  /\ last'.h = providers[ref]
  /\ last'.closes = <<>> /\ closeCount' = closeCount
  /\ providers' = providers

\* C9 (as claimed): for a provider seeded at (urn, id0), in a run where
\* Check was never called with urn, Diff(urn, id0) calls DiffConfig on the
\* handle registered at (urn, id0), closes nothing and leaves the map
\* unchanged.
DeleteBeforeReplaceReadUnchecked ==
  [][ ( /\ last'.op = "Diff"
        /\ StillSeeded(mustNewReference(last'.urn, last'.id))
        /\ checked[last'.urn] = NoHandle )
      => ReadsOldProvider(mustNewReference(last'.urn, last'.id))
    ]_vars

\* C9 (amended): for a provider seeded at (urn, id0), whenever Diff(urn,
\* id0) is called while nothing is registered under (urn, UnknownID), it
\* calls DiffConfig on the handle registered at (urn, id0), closes nothing
\* and leaves the map unchanged, whatever the plugin answers.
DeleteBeforeReplaceRead ==
  [][ ( /\ last'.op = "Diff"
        /\ StillSeeded(mustNewReference(last'.urn, last'.id))
        /\ mustNewReference(last'.urn, UnknownID) \notin DOMAIN providers )
      => ReadsOldProvider(mustNewReference(last'.urn, last'.id))
    ]_vars

DeleteBeforeReplaceReadWitness ==
  /\ last.op = "Diff" /\ last.out = "return" /\ last.path = "fallback"
  /\ StillSeeded(mustNewReference(last.urn, last.id))
  /\ last.h = seeded[mustNewReference(last.urn, last.id)]
  /\ last.dc.replace /\ closeCount[last.h] = 0

\* C10: on a registry constructed with isPreview = true, every Delete
\* aborts with a contract violation, before it removes a map entry and
\* before it calls host.CloseProvider.
DeleteDuringPreviewIsFatal ==
  [][ (last'.op = "Delete" /\ isPreview) =>
        /\ aborted' = "contract" /\ last'.out = "contract"
        /\ providers' = providers
        /\ closeCount' = closeCount /\ last'.closes = <<>>
    ]_vars

DeleteDuringPreviewIsFatalWitness ==
  /\ last.op = "Delete" /\ isPreview /\ aborted = "contract"
  /\ Lookup(last.urn, last.id).ok

\* C11: on a registry that is not in preview, Delete(urn, id) of a
\* registered (urn, id) removes that entry (a lookup of it then finds
\* nothing), calls host.CloseProvider once, on what it removed, and returns
\* StatusOK and no error whatever CloseProvider answers; Delete of an
\* unregistered (urn, id) aborts, closing nothing and leaving the map alone.
DeleteRemovesAndCloses ==
  [][ (last'.op = "Delete" /\ ~isPreview) =>
        LET ref == mustNewReference(last'.urn, last'.id) IN
        IF ref \in DOMAIN providers
          THEN /\ last'.out = "return" /\ aborted' = "none"
               /\ ref \notin DOMAIN providers'
               /\ \A r \in DOMAIN providers \ {ref} :
                    r \in DOMAIN providers' /\ providers'[r] = providers[r]
               /\ last'.closes = <<providers[ref]>>
               /\ closeCount' = Bump(closeCount, providers[ref])
               /\ last'.status = "StatusOK" /\ last'.err = NoErr
          ELSE /\ last'.out = "contract" /\ aborted' = "contract"
               /\ last'.closes = <<>> /\ closeCount' = closeCount
               /\ providers' = providers
    ]_vars

DeleteRemovesAndClosesWitness ==
  /\ last.op = "Delete" /\ last.out = "return" /\ last.closeErr
  /\ last.h \in Handles /\ closeCount[last.h] = 1
  /\ ~Lookup(last.urn, last.id).ok
  /\ last.status = "StatusOK" /\ last.err = NoErr

\* Create reached Configure on a handle and Configure accepted (and, when
\* an id was to be generated, uuid.NewV4 did not fail)
CreateConfigured ==
  /\ last.op = "Create" /\ last.cfg \in Handles /\ last.plugin = "ok"
  /\ last.err # PluginErr("uuid")

\* C12 (as claimed): a Create whose Configure succeeded returns normally,
\* with no error, StatusOK and news as outputs; its id is empty when
\* preview is true, and non-empty and not UnknownID when preview is false.
CreateAssignsID ==
  CreateConfigured =>
    /\ aborted = "none" /\ last.out = "return" /\ last.err = NoErr
    /\ last.outputs = "news" /\ last.status = "StatusOK"
    /\ IF last.preview THEN last.rid = EmptyID
                       ELSE last.rid \notin {EmptyID, UnknownID}

\* C13: every key of the providers map has an id that is UnknownID or a
\* real id, never the empty id, whether the registry was built for a
\* preview or for an update and whatever preview flag Create was given.
KeySpace ==
  \A ref \in DOMAIN providers :
    /\ IsProviderType(ref[1])
    /\ ref[2] \in {UnknownID} \cup RealIDs

KeySpaceWitness ==
  /\ isPreview /\ last.op = "Create" /\ last.preview /\ last.plugin = "ok"
  /\ last.cfg \in Handles
  /\ \E ref \in DOMAIN providers : ref[2] \in RealIDs
  /\ \E ref \in DOMAIN providers : ref[2] = UnknownID

\* C14: when the handle under (urn, UnknownID) rejects Configure, Create
\* returns that error with an empty id and nil outputs, calls
\* host.CloseProvider on nothing, and leaves the providers map as it was,
\* the handle still registered under (urn, UnknownID).
CreateConfigureFailure ==
  [][ (last'.op = "Create" /\ last'.cfg \in Handles /\ last'.plugin = "err") =>
        /\ last'.out = "return" /\ aborted' = "none"
        /\ last'.err = PluginErr("Configure")
        /\ last'.rid = EmptyID /\ last'.outputs = "nil"
        /\ last'.closes = <<>> /\ closeCount' = closeCount
        /\ providers' = providers
        /\ mustNewReference(last'.urn, UnknownID) \in DOMAIN providers'
        /\ providers'[mustNewReference(last'.urn, UnknownID)] = last'.cfg
        /\ configCount' = Bump(configCount, last'.cfg)
    ]_vars

CreateConfigureFailureWitness ==
  /\ last.op = "Create" /\ last.plugin = "err" /\ last.err = PluginErr("Configure")
  /\ Lookup(last.urn, UnknownID) = Found(last.cfg)
  /\ configCount[last.cfg] = 1 /\ closeCount[last.cfg] = 0
  /\ \A ref \in DOMAIN providers : ref[2] = UnknownID

\* C15: an Update(urn, id) that finds a handle h under (urn, UnknownID):
\* if Configure succeeds, (urn, id) resolves to h afterwards and Update
\* returns news, StatusOK and no error; if Configure fails, Update returns
\* nil outputs, StatusUnknown and the error, and the providers map is as
\* before the call.
UpdateConfigures ==
  [][ (last'.op = "Update" /\ last'.cfg \in Handles /\ last'.id # EmptyID) =>
        /\ last'.out = "return" /\ aborted' = "none"
        /\ last'.cfg = providers[mustNewReference(last'.urn, UnknownID)]
        /\ configCount' = Bump(configCount, last'.cfg)
        /\ IF last'.plugin = "ok"
             THEN /\ mustNewReference(last'.urn, last'.id) \in DOMAIN providers'
                  /\ providers'[mustNewReference(last'.urn, last'.id)] = last'.cfg
                  /\ last'.outputs = "news" /\ last'.status = "StatusOK"
                  /\ last'.err = NoErr
             ELSE /\ last'.outputs = "nil" /\ last'.status = "StatusUnknown"
                  /\ last'.err = PluginErr("Configure")
                  /\ providers' = providers
    ]_vars

UpdateConfiguresWitness ==
  /\ last.op = "Update" /\ last.plugin = "err" /\ last.status = "StatusUnknown"
  /\ last.id \in RealIDs /\ Lookup(last.urn, last.id).ok
  /\ Lookup(last.urn, UnknownID) = Found(last.cfg)
  /\ configCount[last.cfg] >= 1

\* C16: Create(urn) or Update(urn) called while nothing is registered under
\* (urn, UnknownID) aborts with a contract violation: Configure is called
\* on no handle and the providers map is unchanged.
ProtocolOrderAsserted ==
  [][ ( /\ last'.op \in {"Create", "Update"}
        /\ mustNewReference(last'.urn, UnknownID) \notin DOMAIN providers )
      => /\ aborted' = "contract" /\ last'.out = "contract"
         /\ last'.cfg = NoHandle /\ configCount' = configCount
         /\ providers' = providers
    ]_vars

ProtocolOrderAssertedWitness ==
  /\ last.op = "Update" /\ aborted = "contract"
  /\ ~Lookup(last.urn, UnknownID).ok /\ Lookup(last.urn, last.id).ok
  /\ \E u \in ProviderURNs : Lookup(u, UnknownID).ok

\* C17 (as claimed): GetSchema, GetMapping, CheckConfig, DiffConfig,
\* Configure, Invoke, Call, Construct and GetPluginInfo, called on the
\* registry, each end in a contract violation and never return an error
\* value to the caller.
RefusedMethodsAbort ==
  last.op \in {"GetSchema", "GetMapping", "CheckConfig", "DiffConfig", "Configure",
               "Invoke", "Call", "Construct", "GetPluginInfo"}
    => (aborted = "contract" /\ last.out = "contract")

\* where a thread is about to access a map: the statement at its pc reads
\* or writes providers or aliases
AtProvidersWrite(t) ==
  threads[t].pc \in {"setProvider.write", "setProvider.writeAlias",
                     "deleteProvider.delete", "Same.copy"}
AtProvidersRead(t) ==
  threads[t].pc \in {"GetProvider.read", "deleteProvider.read", "Same.copy"}
AtAliasesWrite(t) == threads[t].pc = "RegisterAlias.write"
AtAliasesRead(t) == threads[t].pc \in {"setProvider.readAlias", "Same.readAlias"}

\* C18 (as claimed): no write to the providers map (by setProvider,
\* deleteProvider or Same) overlaps another thread's read or write of it,
\* as writing only under the exclusive lock would ensure.
ProvidersWritesExclusive ==
  \A t \in Threads, u \in Threads :
    (t # u /\ AtProvidersWrite(t)) => ~(AtProvidersRead(u) \/ AtProvidersWrite(u))

\* C19 (as claimed): while RegisterAlias writes the aliases map on one
\* thread, no setProvider or Same on another thread reads it, as accessing
\* aliases only under the lock would ensure.
AliasesAccessLocked ==
  \A t \in Threads, u \in Threads :
    (t # u /\ AtAliasesWrite(t)) => ~AtAliasesRead(u)

\* a thread is inside host.Provider or the workspace's download/install
\* (the load), host.CloseProvider, or a handle's CheckConfig, DiffConfig or
\* Configure
InPluginCall(t) ==
  threads[t].pc \in {"Check.load", "Check.CheckConfig", "Check.Close", "Diff.DiffConfig",
                     "Diff.Close", "Configure", "Delete.Close"}
HoldsLock(t) == m.writer = t \/ t \in m.readers

\* C20: a thread that is inside a plugin, host or workspace call holds the
\* registry lock neither shared nor exclusively.
NoLockAroundPluginCalls ==
  \A t \in Threads : InPluginCall(t) => ~HoldsLock(t)

NoLockAroundPluginCallsWitness ==
  \E t \in Threads, u \in Threads :
    /\ threads[t].pc = "Delete.Close" /\ threads[t].provider \in Handles
    /\ ~HoldsLock(t)
    /\ u # t /\ m.writer = u

\* C21 (as claimed): in a run that trips no contract assertion, Configure
\* has been called at most once on every handle of the loader, the built-in
\* one included, and a call that configures a handle finds it not closed.
ConfigureOnce ==
  aborted = "none" =>
    /\ \A h \in Handles : configCount[h] <= 1
    /\ (last.cfg \in Handles /\ last.closes = <<>>) => closeCount[last.cfg] = 0

\* ------------------------------------------------------- the loader
\* the call o (a Check or an iteration of NewRegistry) called loadProvider,
\* and the loader went to the host
Loading(o) == o.op \in {"Check", "NewRegistry"} /\ o.loaded /\ o.calls # <<>>
\* where the loader's call log has a call of that name
Pos(o, name) == {i \in 1 .. Len(o.calls) : o.calls[i].call = name}
\* the version the loader was given is nil and the latest one is not found
NoLatest(o) == GetProviderVersion(o.news).v = NoVersion /\ o.hs.latest = "err"
\* what host.Provider's answer a makes the loader return as its error
AnswerErr(a) == IF a \in {"ok", "nil"} THEN NoErr ELSE PluginErr(a)

\* C22: when the first host.Provider fails with a missing-plugin error, the
\* loader calls, each at most once and in this order, DownloadToFile,
\* Install (with reinstall = false) and host.Provider a second time; when
\* download and install succeed the second call is made and its result and
\* error are the loader's, so a second call that succeeds yields a handle
\* and no InstallProviderError; host.Provider is called at most twice.
LoaderFallbackOrder ==
  (Loading(last) /\ last.hs.p1 = "missing") =>
    /\ 1 \in Pos(last, "Provider")
    /\ Cardinality(Pos(last, "Provider")) <= 2
    /\ Cardinality(Pos(last, "DownloadToFile")) <= 1
    /\ Cardinality(Pos(last, "Install")) <= 1
    /\ \A i \in Pos(last, "Install") :
         /\ ~last.calls[i].reinstall
         /\ \E j \in Pos(last, "DownloadToFile") : j < i
    /\ \A i \in Pos(last, "Provider") \ {1} :
         /\ i = Len(last.calls)
         /\ \E j \in Pos(last, "Install") : j < i
    /\ (~NoLatest(last) /\ last.hs.dl = "ok" /\ last.hs.inst = "ok") =>
         /\ Cardinality(Pos(last, "Provider")) = 2
         /\ last.lderr = AnswerErr(last.hs.p2)
         /\ last.hs.p2 = "ok" =>
              (last.h \in HostHandles /\ last.lderr.kind # "InstallProviderError")
         /\ last.op = "Check" => (last.hs.p2 = "ok" <=> last.plugin # "-")

LoaderFallbackOrderWitness ==
  /\ last.op = "Check" /\ last.hs.p1 = "missing" /\ last.hs.p2 = "ok"
  /\ last.path = "published" /\ Len(last.calls) = 5
  /\ Lookup(last.urn, UnknownID) = Found(last.h) /\ last.h \in HostHandles

\* C23: when DownloadToFile fails, or Install fails after a download that
\* succeeded, the loader returns an InstallProviderError with the package
\* as Name, the requested URL as PluginDownloadURL and the cause in its
\* chain; no Install follows a failed download, host.Provider is not called
\* again, and a Check on this path returns that error and leaves the
\* providers map as it was.
InstallFailureWrapped ==
  [][ ( /\ Loading(last') /\ last'.hs.p1 = "missing" /\ ~NoLatest(last')
        /\ (last'.hs.dl = "err" \/ last'.hs.inst = "err") )
      => /\ last'.lderr.kind = "InstallProviderError"
         /\ last'.lderr.name = GetProviderPackage(last'.urn)
         /\ last'.lderr.url = GetProviderDownloadURL(last'.news).url
         /\ last'.lderr.cause = (IF last'.hs.dl = "err" THEN "download" ELSE "install")
         /\ last'.hs.dl = "err" => Pos(last', "Install") = {}
         /\ Pos(last', "Provider") = {1}
         /\ nextHandle' = nextHandle
         /\ last'.op = "Check" =>
              (last'.err = last'.lderr /\ providers' = providers /\ last'.h = NoHandle)
    ]_vars

InstallFailureWrappedWitness ==
  /\ last.op = "Check" /\ last.hs.inst = "err" /\ last.hs.p1 = "missing"
  /\ last.err.kind = "InstallProviderError" /\ last.err.url = "https://srv"
  /\ Pos(last, "Install") # {} /\ ~Lookup(last.urn, UnknownID).ok

\* C24: when the first host.Provider fails with an error that is not a
\* missing-plugin error, the loader returns that error unchanged and makes
\* no other call: no GetLatestVersion, download, install or second
\* host.Provider.
OnlyMissingRecovered ==
  (Loading(last) /\ last.hs.p1 \notin {"ok", "nil", "missing"}) =>
    /\ last.lderr = PluginErr(last.hs.p1)
    /\ Len(last.calls) = 1 /\ last.calls[1].call = "Provider"
    /\ last.op = "Check" => last.err = last.lderr

OnlyMissingRecoveredWitness ==
  /\ last.op = "Check" /\ last.hs.p1 = "other" /\ last.loaded
  /\ last.err = PluginErr("other") /\ Len(last.calls) = 1
  /\ GetProviderVersion(last.news).v = NoVersion

\* C25: whenever a built-in handle was supplied and the requested package
\* is its Pkg(), the loader returns the built-in handle and calls neither
\* the host nor the workspace.
BuiltinShortCircuit ==
  ( /\ last.op \in {"Check", "NewRegistry"} /\ last.loaded
    /\ builtins # NilProvider /\ GetProviderPackage(last.urn) = Pkg(builtins) )
  => /\ last.h = builtins /\ last.lderr = NoErr
     /\ last.calls = <<>>

BuiltinShortCircuitWitness ==
  /\ last.op = "Check" /\ last.loaded /\ last.hs.p1 = "other"
  /\ last.h = BuiltinHandle /\ last.path = "published" /\ nextHandle = 1
  /\ Lookup(last.urn, UnknownID) = Found(BuiltinHandle)

\* an iteration of NewRegistry that refuses its resource: no registry is
\* returned, nothing was loaded and the map under construction is as it was
Rejected ==
  /\ phase' = "failed"
  /\ ~last'.loaded /\ last'.calls = <<>> /\ last'.h = NoHandle
  /\ nextHandle' = nextHandle /\ configCount' = configCount
  /\ providers' = providers

\* C26: NewRegistry, on a prior provider resource whose id is empty or
\* UnknownID, fails with "provider ... has an unknown ID", and on one whose
\* (urn, id) was already seen, with "duplicate provider found in old
\* state"; either way it returns no registry and loads no plugin for that
\* resource.
NewRegistryRejects ==
  [][ (last'.op = "NewRegistry" /\ IsProviderType(last'.urn)) =>
        /\ last'.id \in {EmptyID, UnknownID} =>
             (last'.err = PluginErr("has an unknown ID") /\ Rejected)
        /\ ( /\ last'.id \notin {EmptyID, UnknownID}
             /\ mustNewReference(last'.urn, last'.id) \in DOMAIN providers ) =>
             (last'.err = PluginErr("duplicate provider found in old state") /\ Rejected)
    ]_vars

NewRegistryRejectsWitness ==
  /\ last.op = "NewRegistry" /\ phase = "failed"
  /\ last.err = PluginErr("duplicate provider found in old state")
  /\ Lookup(last.urn, last.id).ok /\ Cardinality(DOMAIN providers) = 2

\* C27: a NewRegistry that succeeds leaves exactly one entry for each prior
\* resource of a provider type and no other entry: a resource of another type
\* loads nothing and adds nothing, a provider resource adds its own (urn, id)
\* with a handle the loader returned, on which Configure has then been called
\* exactly once, and the returned map holds only handles configured once.
NewRegistrySeeds ==
  [][ last'.op = "NewRegistry" =>
        LET ref == mustNewReference(last'.urn, last'.id) IN
        CASE last'.path = "skipped" ->
               /\ ~IsProviderType(last'.urn)
               /\ ~last'.loaded /\ last'.calls = <<>>
               /\ providers' = providers /\ nextHandle' = nextHandle
          [] last'.path = "loaded" ->
               /\ IsProviderType(last'.urn) /\ ref \notin DOMAIN providers
               /\ last'.loaded /\ last'.lderr = NoErr /\ last'.h \in Handles
               /\ providers' = (ref :> last'.h) @@ providers
               /\ last'.cfg = last'.h /\ configCount'[last'.h] = 1
          [] last'.path = "returned" ->
               /\ phase' = "ready" /\ providers' = providers
               /\ \A r \in DOMAIN providers :
                    /\ IsProviderType(r[1]) /\ r[2] \in PriorIDs
                    /\ providers[r] \in Handles /\ configCount[providers[r]] = 1
          [] OTHER -> phase' = "failed" /\ providers' = providers
    ]_vars

\* C28: Same(ref), when aliases maps ref's URN to an old URN O and a handle
\* h is registered under (O, ref.id), leaves h under both ref and (O, ref.id)
\* and every other entry as it was; when ref's URN has no alias it leaves
\* the providers map unchanged; it calls neither the host nor a handle.
SameCopiesAlias ==
  [][ last'.op = "Same" =>
        LET ref == mustNewReference(last'.urn, last'.id)
            aliased == ref[1] \in DOMAIN aliases
            aliasRef == mustNewReference(aliases[ref[1]], ref[2])
        IN
        /\ last'.calls = <<>> /\ last'.closes = <<>> /\ last'.cfg = NoHandle
        /\ ~last'.loaded /\ last'.plugin = "-"
        /\ closeCount' = closeCount /\ configCount' = configCount
        /\ nextHandle' = nextHandle /\ aliases' = aliases
        /\ ~aliased => providers' = providers
        /\ (aliased /\ GetProvider(aliasRef).ok
                    /\ GetProvider(aliasRef).provider \in Handles) =>
             LET h == providers[aliasRef] IN
             /\ ref \in DOMAIN providers' /\ providers'[ref] = h
             /\ aliasRef \in DOMAIN providers' /\ providers'[aliasRef] = h
             /\ \A r \in DOMAIN providers' \ {ref} :
                  r \in DOMAIN providers /\ providers'[r] = providers[r]
    ]_vars

SameCopiesAliasWitness ==
  /\ last.op = "Same" /\ last.path = "aliased"
  /\ last.urn \in DOMAIN aliases /\ aliases[last.urn] # last.urn
  /\ Lookup(last.urn, last.id).ok
  /\ Lookup(last.urn, last.id).provider \in Handles
  /\ Lookup(aliases[last.urn], last.id) = Lookup(last.urn, last.id)

\* the call recorded in o called host.CloseProvider
Closed(o) == o.closes # <<>>

\* C29: once NewRegistry has returned a registry, host.CloseProvider is
\* called only by Delete, by Check when CheckConfig reports failures or an
\* error, and by Diff on the (urn, UnknownID) hit path when the diff requires
\* replacement; GetProvider, Same, Create, Update, RegisterAlias and Diff's
\* fallback path never call it.
ClosingPaths ==
  [][ phase = "ready" =>
        /\ (Closed(last') \/ closeCount' # closeCount) =>
             \/ last'.op = "Delete"
             \/ last'.op = "Check" /\ last'.plugin \in {"failures", "err"}
             \/ last'.op = "Diff" /\ last'.path = "hit" /\ last'.dc.replace
        /\ ( \/ last'.op \in {"GetProvider", "Same", "Create", "Update", "RegisterAlias"}
             \/ last'.op = "Diff" /\ last'.path = "fallback" ) =>
             (~Closed(last') /\ closeCount' = closeCount)
    ]_vars

ClosingPathsWitness ==
  /\ phase = "ready" /\ last.op = "Check" /\ last.plugin = "failures"
  /\ last.closes = <<last.h>> /\ closeCount[last.h] = 1
  /\ \E h \in Handles \ {last.h} : closeCount[h] = 1

\* C30: a Diff whose DiffConfig returns an error, on the (urn, UnknownID)
\* path or on the (urn, id) fallback path, returns Changes = DiffUnknown
\* together with that error, does not call host.CloseProvider and leaves the
\* providers map unchanged.
DiffPluginError ==
  [][ ( /\ last'.op = "Diff" /\ last'.plugin = "DiffConfig" /\ last'.dc.err
        /\ last'.path \in {"hit", "fallback"} ) =>
        /\ aborted' = "none" /\ last'.out = "return"
        /\ last'.changes = "DiffUnknown" /\ ~last'.replace
        /\ last'.err = PluginErr("DiffConfig")
        /\ last'.closes = <<>> /\ closeCount' = closeCount
        /\ providers' = providers
    ]_vars

DiffPluginErrorWitness ==
  /\ last.op = "Diff" /\ last.path = "hit" /\ last.dc.err /\ last.dc.replace
  /\ last.err = PluginErr("DiffConfig") /\ last.changes = "DiffUnknown"
  /\ Lookup(last.urn, UnknownID) = Found(last.h) /\ closeCount[last.h] = 0

\* C31: when the first host.Provider reports a missing plugin and no
\* version was requested, the loader asks the workspace for the latest
\* version, once and before any download; when that lookup fails it returns
\* "could not find latest version for provider <pkg>" with the cause in its
\* chain and makes no download, no install and no second host.Provider.
LatestVersionResolution ==
  ( /\ Loading(last) /\ last.hs.p1 = "missing"
    /\ GetProviderVersion(last.news).v = NoVersion ) =>
    /\ Pos(last, "GetLatestVersion") = {2}
    /\ \A i \in Pos(last, "DownloadToFile") : i > 2
    /\ last.hs.latest = "err" =>
         /\ last.lderr.kind = "could not find latest version for provider"
         /\ last.lderr.name = GetProviderPackage(last.urn)
         /\ last.lderr.cause = "latest"
         /\ Len(last.calls) = 2 /\ Pos(last, "Provider") = {1}
         /\ last.h = NoHandle
         /\ last.op = "Check" => last.err = last.lderr

LatestVersionResolutionWitness ==
  /\ last.op = "Check" /\ last.loaded /\ last.hs.p1 = "missing"
  /\ last.hs.latest = "err" /\ Len(last.calls) = 2
  /\ last.err.kind = "could not find latest version for provider"
  /\ ~Lookup(last.urn, UnknownID).ok

\* C32: when the handle loaded for a prior provider rejects
\* Configure(inputs), NewRegistry calls host.CloseProvider on that handle
\* exactly once, whatever that close answers, returns "could not configure
\* provider '<urn>'" and returns no registry.
NewRegistryConfigureFailure ==
  [][ ( /\ last'.op = "NewRegistry" /\ last'.cfg \in Handles
        /\ last'.plugin # "ok" ) =>
        LET h == last'.cfg IN
        /\ last'.h = h /\ last'.closes = <<h>>
        /\ configCount'[h] = configCount[h] + 1
        /\ closeCount'[h] = closeCount[h] + 1
        /\ \A g \in Handles \ {h} : closeCount'[g] = closeCount[g]
        /\ last'.err = PluginErr("could not configure provider")
        /\ phase' = "failed" /\ providers' = providers
        /\ mustNewReference(last'.urn, last'.id) \notin DOMAIN providers'
    ]_vars

NewRegistryConfigureFailureWitness ==
  /\ last.op = "NewRegistry" /\ phase = "failed" /\ last.plugin = "err"
  /\ last.closeErr /\ last.closes = <<last.h>> /\ closeCount[last.h] = 1
  /\ last.err = PluginErr("could not configure provider")

\* C33: Close and SignalCancellation return nil, Pkg returns "pulumi", Read
\* and StreamInvoke return an error value and do not abort; none of these
\* calls changes the providers or the aliases map, closes or configures a
\* handle, or calls the host.
BenignMethods ==
  [][ last'.op \in {"Close", "SignalCancellation", "Pkg", "Read", "StreamInvoke"} =>
        /\ aborted' = "none" /\ last'.out = "return"
        /\ last'.op \in {"Close", "SignalCancellation"} => last'.err = NoErr
        /\ last'.op = "Pkg" => (last'.outputs = "pulumi" /\ last'.err = NoErr)
        /\ last'.op = "Read" =>
             last'.err = PluginErr("provider resources may not be read")
        /\ last'.op = "StreamInvoke" => last'.err # NoErr
        /\ providers' = providers /\ aliases' = aliases
        /\ closeCount' = closeCount /\ configCount' = configCount
        /\ nextHandle' = nextHandle
        /\ last'.calls = <<>> /\ last'.closes = <<>> /\ last'.cfg = NoHandle
        /\ ~last'.loaded
    ]_vars

BenignMethodsWitness ==
  /\ last.op = "Close" /\ last.err = NoErr /\ aborted = "none"
  /\ \E ref \in DOMAIN providers :
       providers[ref] \in Handles /\ closeCount[providers[ref]] = 0

\* the handles the host has spawned for the loader
LoadedHandles == {h \in HostHandles : h < nextHandle}
\* the handles some key of the providers map refers to
Referenced == {providers[ref] : ref \in DOMAIN providers}

\* C34 (as claimed): in a registry that NewRegistry returned, every handle
\* the loader obtained from the host and on which host.CloseProvider has not
\* been called is the value of at least one key of the providers map: no
\* operation removes or overwrites the last reference to an open handle
\* without closing it.
NoOrphanedHandle ==
  (phase = "ready" /\ aborted = "none") =>
    \A h \in LoadedHandles : closeCount[h] = 0 => h \in Referenced

\* C35 (as claimed): every key of the providers map maps to a handle, never
\* to nil, so a GetProvider that finds its reference returns a handle; in
\* particular after Same(ref) with ref's URN aliased to O and nothing
\* registered under (O, ref.id).
EveryEntryLive ==
  /\ \A ref \in DOMAIN providers : providers[ref] # NilProvider
  /\ (last.op = "GetProvider" /\ last.path = "hit") => last.h # NilProvider

\* C36 (as claimed): when NewRegistry returns an error, host.CloseProvider
\* has been called on every handle it loaded for the earlier prior
\* providers: a failed construction leaves no plugin handle open.
FailedConstructionClosesAll ==
  phase = "failed" => \A h \in LoadedHandles : closeCount[h] >= 1

\* ------------------------------------------------------- the frame
\* the URNs whose entries a call with URN u may write: u and its alias
Footprint(u) == {u} \cup (IF u \in DOMAIN aliases THEN {aliases[u]} ELSE {})
\* a call as far as the providers map is concerned: the operation, its URN,
\* the id it writes or removes, the handle a Check publishes, and whether the
\* plugin let it reach its write
MapCall(op, urn, id, h, ok) == [op |-> op, urn |-> urn, id |-> id, h |-> h, ok |-> ok]
MapCallOf(o) ==
  MapCall(o.op, o.urn, IF o.op = "Create" THEN o.rid ELSE o.id, o.h,
          o.out = "return" /\ o.path \in {"published", "deleted"})
\* the providers map call c leaves when it finds map
WriteIn(map, ref, h) ==
  LET one == (ref :> h) @@ map IN
  IF ref[1] \in DOMAIN aliases
    THEN (mustNewReference(aliases[ref[1]], ref[2]) :> h) @@ one
    ELSE one
MapAfter(map, c) ==
  LET unknown == mustNewReference(c.urn, UnknownID)
      ref == mustNewReference(c.urn, c.id)
  IN
  IF ~c.ok THEN map
  ELSE IF c.op = "Check" THEN WriteIn(map, unknown, c.h)
  ELSE IF c.op \in {"Create", "Update"}
    THEN IF unknown \in DOMAIN map /\ map[unknown] # NilProvider
           THEN WriteIn(map, ref, map[unknown]) ELSE map
  ELSE IF c.op = "Delete" THEN [r \in (DOMAIN map) \ {ref} |-> map[r]]
  ELSE map
\* the calls another caller may be making
OtherCalls ==
  {MapCall("Check", urn, EmptyID, h, TRUE) : urn \in ProviderURNs, h \in Handles}
  \cup {MapCall(op, urn, id, NoHandle, TRUE) :
          op \in {"Create", "Update", "Delete"}, urn \in ProviderURNs, id \in RealIDs}

\* C37: Check, Create, Update, Delete and Diff called with URN U add,
\* overwrite or remove only providers entries whose URN is U or aliases[U];
\* the entries of every other URN and the aliases map are left as they
\* were; and the call commutes, as far as the map goes, with every call on a
\* URN whose footprint is disjoint from U's: either order leaves the same map.
PerURNFrame ==
  [][ last'.op \in {"Check", "Create", "Update", "Delete", "Diff"} =>
        LET c == MapCallOf(last') IN
        /\ aliases' = aliases
        /\ \A ref \in (DOMAIN providers) \cup (DOMAIN providers') :
             ref[1] \notin Footprint(c.urn) =>
               /\ ref \in DOMAIN providers /\ ref \in DOMAIN providers'
               /\ providers'[ref] = providers[ref]
        /\ providers' = MapAfter(providers, c)
        /\ c.ok =>
             \A d \in OtherCalls :
               Footprint(d.urn) \cap Footprint(c.urn) = {} =>
                 MapAfter(providers', d) = MapAfter(MapAfter(providers, d), c)
    ]_vars

PerURNFrameWitness ==
  /\ last.op = "Check" /\ last.path = "published" /\ last.urn \in DOMAIN aliases
  /\ Lookup(aliases[last.urn], UnknownID) = Found(last.h)
  /\ \E ref \in DOMAIN providers :
       ref[1] \notin Footprint(last.urn) /\ providers[ref] \in Handles \ {last.h}

\* thread t is inside setProvider's critical section
InSetProvider(t) ==
  threads[t].pc \in {"setProvider.write", "setProvider.readAlias",
                     "setProvider.writeAlias", "setProvider.Unlock"}

\* C38: setProvider((N, i), h), with N aliased to O, writes (N, i) and (O, i)
\* inside one exclusive critical section: from its first write to its
\* Unlock it holds the write lock, no GetProvider reads the map meanwhile,
\* and when it unlocks both keys map to h.
AliasPublicationAtomic ==
  \A t \in Threads :
    /\ InSetProvider(t) =>
         /\ m.writer = t /\ m.readers = {}
         /\ \A u \in Threads \ {t} : threads[u].pc # "GetProvider.read"
    /\ (threads[t].pc = "setProvider.Unlock" /\ threads[t].alias # "-") =>
         /\ GetProvider(threads[t].ref) = Found(threads[t].provider)
         /\ GetProvider(mustNewReference(threads[t].alias, threads[t].ref[2]))
              = Found(threads[t].provider)

AliasPublicationAtomicWitness ==
  \E t \in Threads : \E u \in Threads \ {t} :
    /\ threads[t].pc = "setProvider.writeAlias"
    /\ ~GetProvider(mustNewReference(threads[t].alias, threads[t].ref[2])).ok
    /\ threads[u].pc = "GetProvider.RLock"
    /\ threads[u].ref = mustNewReference(threads[t].alias, threads[t].ref[2])

\* C39 (as claimed): when no version was requested and the loader resolved
\* the latest version V, the download and the install are of V, the second
\* host.Provider asks for V, and an InstallProviderError raised on this path
\* reports V as its version.
LoaderVersionConsistent ==
  ( /\ Loading(last) /\ last.hs.p1 = "missing" /\ last.hs.latest = "ok"
    /\ GetProviderVersion(last.news).v = NoVersion ) =>
    /\ \A i \in Pos(last, "DownloadToFile") \cup Pos(last, "Install") :
         last.calls[i].version = LatestVersion
    /\ \A i \in Pos(last, "Provider") \ {1} : last.calls[i].version = LatestVersion
    /\ last.lderr.kind = "InstallProviderError" => last.lderr.version = LatestVersion

\* thread t holds the registry lock, for writing or for reading
Holds(t) == m.writer = t \/ t \in m.readers
\* thread t is about to acquire the registry lock
AtAcquire(t) ==
  threads[t].pc \in {"GetProvider.RLock", "setProvider.Lock",
                     "deleteProvider.Lock", "Same.RLock"}

\* C40: a call that acquired the registry lock has released it when it
\* returns and never acquires it while holding it; and, with every goroutine
\* scheduled and every host, workspace and plugin call returning, every
\* running call comes to its end (or the process dies on a contract
\* violation): no call waits for the lock for ever.
LockReleaseAndProgress ==
  /\ [](\A t \in Threads :
          /\ threads[t].pc = "idle" => ~Holds(t)
          /\ AtAcquire(t) => ~Holds(t))
  /\ \A t \in Threads :
       (threads[t].pc # "idle") ~> (threads[t].pc = "idle" \/ aborted # "none")

LockReleaseAndProgressWitness ==
  \E t \in Threads : \E u \in Threads \ {t} :
    /\ threads[t].pc = "setProvider.Lock" /\ threads[t].op = "Check"
    /\ u \in m.readers /\ threads[u].op = "Same" /\ aborted = "none"

====
